---- MODULE Spec2Model ----
(***************************************************************************)
(* Orange Pi 5 Plus distro builder: image assembly (src/src/image.c), the  *)
(* command executor (src/src/system_utils.c, src/builder.c), the retry     *)
(* wrapper and signal handler (src/builder.c) and the gaming build         *)
(* pipeline (src/src/gaming.c), over a small model of the host's loop      *)
(* devices, mount table and loop-device record file.                       *)
(***************************************************************************)
EXTENDS Integers, Sequences, FiniteSets, TLC

(* ---- bounds ---- *)
MaxLoopDevs == 2
MaxCmdLen == 3
MaxRetries == 3
MaxOpens == 2
MaxDay == 3
MaxReads == 3

(* ---- program constants ---- *)
SIGINT == 2
SIGQUIT == 3
SIGTERM == 15
ERROR_SUCCESS == 0
ERROR_USER_CANCELLED == 10
ERROR_UNKNOWN == 99
ERROR_FILE_NOT_FOUND == 2
ERROR_NETWORK_FAILURE == 3
ERROR_INSUFFICIENT_SPACE == 5
ERROR_DEPENDENCY_MISSING == 6
ERROR_GPU_DRIVER_FAILED == 7
ERROR_INSTALLATION_FAILED == 9
EMU_NONE == 0
EMU_LIBREELEC == 1
EMU_EMULATIONSTATION == 2
EMU_RETROPIE == 3
EMU_LAKKA == 4
EMU_BATOCERA == 5
EMU_ALL == 99
LOG_LEVEL_DEBUG == 0
LOG_LEVEL_INFO == 1
LOG_LEVEL_WARNING == 2
LOG_LEVEL_ERROR == 3
LOG_LEVEL_CRITICAL == 4

Devs == 1..MaxLoopDevs
Signals == {SIGINT, SIGQUIT, SIGTERM}

VARIABLES
    os,          \* host state: loop devices, mount table, record file
    rootfsTree,  \* ROOTFS_PATH holds a populated tree
    alive,       \* the builder process is running
    exitCode,    \* its exit status once it has exited
    interrupted, \* builder.c: volatile sig_atomic_t interrupted
    pc,          \* position of the control thread
    caller,      \* who called create_boot_image: "menu" or "gaming"
    imgFailed,   \* create_boot_image is on a failure branch
    lastRet,     \* the function that returned last and its return value
    ev,          \* resource operations issued by the current call
    sigOs,       \* the host state a signal found
    sigPc,       \* where the control thread was when the signal came
    gTrace,      \* gaming_optimized_build: stages finished, with results
    rv,          \* execute_command_with_retry: its locals and history
    xv,          \* the last direct executor call
    prev,        \* what the entry point called before this one returned
    preOs,       \* the host state the current entry point was called in
    config,      \* builder.c: the build_config_t main owns (global_config)
    bld,         \* builder.c: log sinks and the locals of the running stage
    disk         \* the image file: partitions, filesystems, bootloader writes

osVars == <<os, rootfsTree, disk>>
procVars == <<alive, exitCode, interrupted, sigOs, sigPc, config, bld>>
imgVars == <<caller, imgFailed, ev>>
cmdVars == <<rv, xv>>
callVars == <<prev, preOs>>
vars == <<os, rootfsTree, alive, exitCode, interrupted, sigOs, sigPc, pc,
          caller,
          imgFailed, lastRet, ev, gTrace, rv, xv, prev, preOs, config, bld,
          disk>>

(***************************************************************************)
(* The shell: "c1 && c2 && ... && cn" handed to system().                  *)
(***************************************************************************)

(* index of the first simple command of an &&-list that fails *)
FirstFail(oks) ==
    IF \E i \in 1..Len(oks) : ~oks[i]
    THEN CHOOSE i \in 1..Len(oks) : ~oks[i] /\ \A j \in 1..(i-1) : oks[j]
    ELSE Len(oks) + 1

(* the i-th simple command of the list is run *)
Runs(oks, i) == i <= FirstFail(oks)

(* Exit status of sh -c "<cmd> 2>&1 | tee -a LOG" (show_output) or of      *)
(* sh -c "<cmd> >> LOG 2>&1": the suffix binds to the last simple command  *)
(* of the list only, and a pipeline's status is that of tee.               *)
ShellStatus(oks, show_output) ==
    IF show_output
    THEN IF FirstFail(oks) < Len(oks) THEN 1 ELSE 0
    ELSE IF FirstFail(oks) <= Len(oks) THEN 1 ELSE 0

(* The same where the log file may fail to take the output (sinkOk): tee   *)
(* that cannot write LOG ends non-zero, and a command whose ">> LOG"       *)
(* cannot be opened is not run.                                            *)
PipeStatus(oks, show_output, sinkOk) ==
    IF FirstFail(oks) < Len(oks) THEN 1
    ELSE IF ~sinkOk THEN 1
    ELSE ShellStatus(oks, show_output)

(* system_utils.c execute_command on a command string that is not empty,   *)
(* the log file being writable: system(log_cmd), -1 on a non-zero status   *)
execute_nonempty(oks, show_output) ==
    IF ShellStatus(oks, show_output) # 0 THEN -1 ELSE 0

(***************************************************************************)
(* Command strings: NULL, or text over blank, word and "&" (for "&&")      *)
(***************************************************************************)
Alphabet == {" ", "x", "&"}
Texts == UNION {[1..n -> Alphabet] : n \in 0..MaxCmdLen}
Cmds == {[null |-> TRUE, text |-> <<>>]}
        \cup {[null |-> FALSE, text |-> t] : t \in Texts}

strlen(t) == Len(t)

IsBlank(c) == c.null \/ \A i \in 1..Len(c.text) : c.text[i] = " "

AmpsBefore(t, i) == Cardinality({j \in 1..(i-1) : t[j] = "&"})

(* the simple commands of the &&-list *)
NumSimple(t) == 1 + Cardinality({j \in 1..Len(t) : t[j] = "&"})

SegHasWord(t, k) ==
    \E i \in 1..Len(t) : t[i] = "x" /\ AmpsBefore(t, i) = k - 1

(* sh rejects a list with nothing before an "&&"; the last part may be     *)
(* empty, since the executor appends a redirection to it                   *)
SyntaxError(t) == \E k \in 1..(NumSimple(t) - 1) : ~SegHasWord(t, k)

(* exit status of system("<text> 2>&1 | tee -a LOG") or of                 *)
(* system("<text> >> LOG 2>&1"), the simple commands ending as in oks      *)
SystemStatus(t, oks, show_output, sinkOk) ==
    LET n == NumSimple(t)
        eff == [k \in 1..n |->
                  IF k = n /\ ~SegHasWord(t, n) THEN TRUE ELSE oks[k]]
    IN IF SyntaxError(t) THEN 2 ELSE PipeStatus(eff, show_output, sinkOk)

(* the command itself ends with a non-zero status, whatever is appended *)
CommandFails(t, oks) == Len(t) = 0 \/ SystemStatus(t, oks, FALSE, TRUE) # 0

(* system_utils.c execute_command *)
execute_command(cmd, oks, show_output, sinkOk) ==
    IF cmd.null \/ strlen(cmd.text) = 0
    THEN [ret |-> -1, spawned |-> 0]
    ELSE IF SystemStatus(cmd.text, oks, show_output, sinkOk) # 0
         THEN [ret |-> -1, spawned |-> 1]
         ELSE [ret |-> 0, spawned |-> 1]

(***************************************************************************)
(* src/builder.c: executor and retry wrapper                               *)
(***************************************************************************)
MSG_NONE == ""
MSG_EMPTY == "Empty command provided"
MSG_COMMAND == "Command exited with code / terminated by signal: <cmd>"
MSG_RETRIES == "Command failed after all retries"

(* the threshold main sets: config.log_level = LOG_LEVEL_INFO *)
ConfigLogLevel == LOG_LEVEL_INFO

(* log_message_detailed: a call below the threshold writes nothing *)
Accepted(level) == ~(level < ConfigLogLevel)

(* execute_command_safe; ctx is the caller's error context (code, msg) *)
execute_command_safe(cmd, oks, show_output, ctx, sinkOk) ==
    IF cmd.null \/ strlen(cmd.text) = 0
    THEN [ret |-> -1, spawned |-> 0, code |-> ERROR_UNKNOWN, msg |-> MSG_EMPTY]
    ELSE IF SystemStatus(cmd.text, oks, show_output, sinkOk) # 0
         THEN [ret |-> -1, spawned |-> 1, code |-> ERROR_UNKNOWN,
               msg |-> MSG_COMMAND]
         ELSE [ret |-> 0, spawned |-> 1, code |-> ctx.code, msg |-> ctx.msg]

(* a loop that writes the "succeeded on attempt" note on every success and *)
(* goes on to the next attempt after it                                    *)
retry_iteration_goes_on(v, intr, oks, sinkOk) ==
    LET r == execute_command_safe([null |-> v.null, text |-> v.cmd],
                                  oks, v.show,
                                  [code |-> v.code, msg |-> v.msg], sinkOk)
        v1 == [v EXCEPT !.results = Append(@, r.ret),
                        !.fails = Append(@, CommandFails(v.cmd, oks)),
                        !.spawned = @ + r.spawned,
                        !.code = r.code,
                        !.msg = r.msg,
                        !.notes = IF r.ret = 0 THEN @ + 1 ELSE @,
                        !.attempt = @ + 1]
    IN [v |-> v1, done |-> r.ret = 0 /\ v.attempt >= v.max, ret |-> r.ret]

(* one iteration of the for loop of execute_command_with_retry (the loop   *)
(* condition attempt <= max_retries holds); v holds the locals             *)
retry_iteration(v, intr, oks, sinkOk) ==
    IF intr # 0
    THEN [v |-> [v EXCEPT !.sawInterrupt = TRUE], done |-> TRUE, ret |-> -1]
    ELSE LET r == execute_command_safe([null |-> v.null, text |-> v.cmd],
                                       oks, v.show,
                                       [code |-> v.code, msg |-> v.msg],
                                       sinkOk)
             v1 == [v EXCEPT !.results = Append(@, r.ret),
                             !.fails = Append(@, CommandFails(v.cmd, oks)),
                             !.spawned = @ + r.spawned,
                             !.code = r.code,
                             !.msg = r.msg]
         IN IF r.ret = 0
            THEN [v |-> [v1 EXCEPT !.notes =
                           IF v.attempt > 1 /\ Accepted(LOG_LEVEL_INFO)
                           THEN @ + 1 ELSE @],
                  done |-> TRUE, ret |-> 0]
            ELSE [v |-> [v1 EXCEPT !.attempt = @ + 1],
                  done |-> FALSE, ret |-> -1]

(* after the loop: error_ctx.code = ERROR_UNKNOWN, the message is          *)
(* overwritten, log_error_context, return -1                               *)
retry_exhausted(v) ==
    [v |-> [v EXCEPT !.code = ERROR_UNKNOWN, !.msg = MSG_RETRIES,
                     !.errors = IF Accepted(LOG_LEVEL_ERROR) THEN @ + 1
                                ELSE @],
     done |-> TRUE, ret |-> -1]

(***************************************************************************)
(* The host: loop devices bound to the image file, the mount table (a      *)
(* stack, newest mount last) and /tmp/orangepi_loop_device.                *)
(***************************************************************************)
OsInit == [loops |-> {}, lazy |-> {}, mounts |-> <<>>, record |-> 0]

(* losetup --find: the lowest free device, 0 when none is free *)
FreeDev(o) ==
    IF Devs \ o.loops = {} THEN 0
    ELSE CHOOSE d \in Devs \ o.loops : \A e \in Devs \ o.loops : d <= e

Busy(o, d) == \E i \in 1..Len(o.mounts) : o.mounts[i].dev = d

OsLosetup(o, d) == [o EXCEPT !.loops = @ \cup {d}]

(* mount refuses a partition that is already mounted at that mount point *)
IsMounted(o, part, d) ==
    \E i \in 1..Len(o.mounts) : o.mounts[i] = [part |-> part, dev |-> d]

OsMount(o, part, d) ==
    [o EXCEPT !.mounts = Append(@, [part |-> part, dev |-> d])]

MountedAt(o, part) == \E i \in 1..Len(o.mounts) : o.mounts[i].part = part

(* the newest mount at a mount point *)
Top(o, part) ==
    CHOOSE i \in 1..Len(o.mounts) :
        /\ o.mounts[i].part = part
        /\ \A j \in (i+1)..Len(o.mounts) : o.mounts[j].part # part

(* umount <dir> removes the newest mount at <dir>. M/boot lies inside M:   *)
(* M is busy while a boot partition is mounted inside it, and a root       *)
(* mounted over M hides the M/boot mounted before it                       *)
CanUmount(o, part) ==
    /\ MountedAt(o, part)
    /\ part = "root" =>
          \A j \in (Top(o, part)+1)..Len(o.mounts) : o.mounts[j].part # "boot"
    /\ part = "boot" =>
          \A j \in (Top(o, part)+1)..Len(o.mounts) : o.mounts[j].part # "root"

(* a device marked for deferred detach goes away with its last mount *)
OsUmount(o, part) ==
    LET t == Top(o, part)
        d == o.mounts[t].dev
        rest == SubSeq(o.mounts, 1, t - 1)
                \o SubSeq(o.mounts, t + 1, Len(o.mounts))
        gone == d \in o.lazy /\ ~\E i \in 1..Len(rest) : rest[i].dev = d
    IN [o EXCEPT !.mounts = rest,
                 !.loops = IF gone THEN @ \ {d} ELSE @,
                 !.lazy = IF gone THEN @ \ {d} ELSE @]

(* losetup -d on a device whose partitions are mounted does not unbind it: *)
(* the kernel refuses or defers the detach until the last unmount          *)
OsDetach(o, d, ok, defer) ==
    IF d \notin o.loops THEN o
    ELSE IF Busy(o, d)
         THEN IF defer THEN [o EXCEPT !.lazy = @ \cup {d}] ELSE o
         ELSE IF ok THEN [o EXCEPT !.loops = @ \ {d}, !.lazy = @ \ {d}]
              ELSE o

Ev(op, d, ok) == [op |-> op, dev |-> d, ok |-> ok]

(***************************************************************************)
(* src/src/image.c                                                         *)
(***************************************************************************)

(* create_image_file: "dd ..." *)
create_image_file(ddOk) == execute_nonempty(<<ddOk>>, TRUE)

(* partition_orangepi_image: "sgdisk --zap-all X && sgdisk --clear ... X" *)
partition_orangepi_image(oks) == execute_nonempty(oks, TRUE)

(* format_orangepi_partitions:                                             *)
(*   LOOP_DEV=$(losetup ...) && mkfs.fat p4 && mkfs.ext4 p5 && losetup -d  *)
format_orangepi_partitions(o, oks) ==
    LET d == FreeDev(o)
        eff == <<oks[1] /\ d # 0, oks[2], oks[3], oks[4]>>
        o1 == IF eff[1] THEN OsLosetup(o, d) ELSE o
        o2 == IF Runs(eff, 4) THEN OsDetach(o1, d, eff[4], FALSE) ELSE o1
        e1 == IF eff[1] THEN <<Ev("fmt_losetup", d, TRUE)>> ELSE <<>>
        e2 == IF Runs(eff, 4) THEN <<Ev("fmt_detach", d, eff[4])>> ELSE <<>>
    IN [os |-> o2, ret |-> execute_nonempty(eff, TRUE), ev |-> e1 \o e2]

(* mount_orangepi_partitions:                                              *)
(*   mkdir -p M M/boot && LOOP_DEV=$(losetup ...) && mount p5 M &&         *)
(*   mount p4 M/boot && echo $LOOP_DEV > /tmp/orangepi_loop_device         *)
mount_orangepi_partitions(o, oks) ==
    LET d == FreeDev(o)
        eff == <<oks[1], oks[2] /\ d # 0, oks[3], oks[4], TRUE>>
        ff == FirstFail(eff)
        o1 == IF ff > 2 THEN OsLosetup(o, d) ELSE o
        o2 == IF ff > 3 THEN OsMount(o1, "root", d) ELSE o1
        o3 == IF ff > 4 THEN OsMount(o2, "boot", d) ELSE o2
        o4 == IF ff > 4 THEN [o3 EXCEPT !.record = d] ELSE o3
        e1 == IF ff > 2 THEN <<Ev("losetup", d, TRUE)>> ELSE <<>>
        e2 == IF ff > 3 THEN <<Ev("mount_root", d, TRUE)>> ELSE <<>>
        e3 == IF ff > 4 THEN <<Ev("mount_boot", d, TRUE)>> ELSE <<>>
    IN [os |-> o4, ret |-> execute_nonempty(eff, TRUE), ev |-> e1 \o e2 \o e3]

(* a release without the "|| true" after each umount: the list stops at    *)
(* the first umount that fails and its failure is the result               *)
unmount_strict(o, oks, defer) ==
    LET ubOk == oks[1] /\ CanUmount(o, "boot")
        o1 == IF ubOk THEN OsUmount(o, "boot") ELSE o
        urOk == ubOk /\ oks[2] /\ CanUmount(o1, "root")
        o2 == IF urOk THEN OsUmount(o1, "root") ELSE o1
    IN [os |-> o2,
        ret |-> IF ubOk /\ urOk THEN 0 ELSE -1,
        ev |-> <<Ev("umount_boot", 0, ubOk)>>]

(* unmount_orangepi_partitions:                                            *)
(*   umount M/boot 2>/dev/null || true && umount M 2>/dev/null || true &&  *)
(*   if [ -f REC ]; then losetup -d $(cat REC) || true; rm -f REC; fi      *)
(* every "|| true" lets the list go on, so all three parts always run      *)
unmount_orangepi_partitions(o, oks, defer) ==
    LET ubOk == oks[1] /\ CanUmount(o, "boot")
        o1 == IF ubOk THEN OsUmount(o, "boot") ELSE o
        urOk == oks[2] /\ CanUmount(o1, "root")
        o2 == IF urOk THEN OsUmount(o1, "root") ELSE o1
        d == o2.record
        o3 == IF d # 0 THEN OsDetach(o2, d, oks[3], defer) ELSE o2
        o4 == [o3 EXCEPT !.record = 0]
        e3 == IF d # 0 THEN <<Ev("detach", d, ~Busy(o2, d))>> ELSE <<>>
    IN [os |-> o4,
        ret |-> execute_nonempty(<<TRUE>>, TRUE),
        ev |-> <<Ev("umount_boot", 0, ubOk), Ev("umount_root", 0, urOk)>>
               \o e3]

(* copy_rootfs_to_image: "rsync -av R/ M/ && mkdir -p M/boot" decides the  *)
(* result; the following "cp R/boot/* M/boot/ ... || true" is ignored.     *)
(* rsync of a source tree that does not exist fails.                       *)
copy_rootfs_to_image(tree, oks) ==
    IF execute_nonempty(<<oks[1] /\ tree, oks[2]>>, TRUE) # 0 THEN -1 ELSE 0

(* install_bootloader_to_image: one dd when u-boot-rockchip.bin exists,    *)
(* else "dd idbloader ... && dd u-boot.itb ..."                            *)
install_bootloader_to_image(haveRockchipBin, oks) ==
    IF haveRockchipBin
    THEN execute_nonempty(<<oks[1]>>, TRUE)
    ELSE execute_nonempty(oks, TRUE)

(* configure_boot_files: three commands, results dropped *)
configure_boot_files(oks) == 0

(* compress_final_image: "cd DIR && xz -9 IMG && sha256sum IMG.xz > ...";   *)
(* run is what the executor returned, ret what the function returns        *)
compress_final_image(oks) ==
    [ret |-> 0, run |-> execute_nonempty(oks, TRUE),
     xz |-> Runs(oks, 2), sha256sum |-> Runs(oks, 3)]

(***************************************************************************)
(* src/src/kernel.c: create_system_image                                   *)
(***************************************************************************)

(* "losetup -j IMG | cut -d: -f1", first line: the lowest device bound to  *)
(* the image file                                                          *)
FirstBound(o) == CHOOSE d \in o.loops : \A e \in o.loops : d <= e

KInputs == [dd : BOOLEAN, losetup : BOOLEAN, mountBoot : BOOLEAN,
            mountRoot : BOOLEAN, umountBoot : BOOLEAN, umountRoot : BOOLEAN,
            detach : BOOLEAN, defer : BOOLEAN]

(* kernel.c create_system_image: only the dd and the popen decide the      *)
(* result; losetup, mkfs, mount, rsync, cp, dd, umount and losetup -d are  *)
(* run whatever the command before them returned. p2 goes to /mnt/boot,    *)
(* then p3 to /mnt/root; "umount /mnt/boot /mnt/root", then "losetup -d".  *)
kernel_create_system_image(o, in) ==
    LET f == FreeDev(o)
        bound == in.losetup /\ f # 0
        o1 == IF bound THEN OsLosetup(o, f) ELSE o
        e1 == IF bound THEN <<Ev("k_losetup", f, TRUE)>> ELSE <<>>
    IN IF execute_nonempty(<<in.dd>>, TRUE) # 0
       THEN [os |-> o, ret |-> ERROR_UNKNOWN, ev |-> <<>>]
       ELSE IF o1.loops = {}
       THEN [os |-> o1, ret |-> ERROR_UNKNOWN, ev |-> e1]
       ELSE
         LET d == FirstBound(o1)
             mbOk == in.mountBoot /\ ~IsMounted(o1, "mnt_boot", d)
             o2 == IF mbOk THEN OsMount(o1, "mnt_boot", d) ELSE o1
             mrOk == in.mountRoot /\ ~IsMounted(o2, "mnt_root", d)
             o3 == IF mrOk THEN OsMount(o2, "mnt_root", d) ELSE o2
             e2 == IF mbOk THEN <<Ev("k_mount_boot", d, TRUE)>> ELSE <<>>
             e3 == IF mrOk THEN <<Ev("k_mount_root", d, TRUE)>> ELSE <<>>
             ubOk == in.umountBoot /\ CanUmount(o3, "mnt_boot")
             o4 == IF ubOk THEN OsUmount(o3, "mnt_boot") ELSE o3
             urOk == in.umountRoot /\ CanUmount(o4, "mnt_root")
             o5 == IF urOk THEN OsUmount(o4, "mnt_root") ELSE o4
             o6 == OsDetach(o5, d, in.detach, in.defer)
         IN [os |-> o6, ret |-> ERROR_SUCCESS,
             ev |-> e1 \o e2 \o e3
                    \o <<Ev("k_umount_boot", d, ubOk),
                         Ev("k_umount_root", d, urOk),
                         Ev("k_detach", d, ~Busy(o5, d))>>]

(***************************************************************************)
(* src/src/dependencies.c, uboot.c, rootfs.c, gaming.c: the stages of the  *)
(* gaming pipeline                                                         *)
(***************************************************************************)

(* check_dependencies: system("command -v gcc"), system("command -v git") *)
check_dependencies(gccFound, gitFound) ==
    IF ~gccFound THEN -1 ELSE IF ~gitFound THEN -1 ELSE 0

(* download_uboot_source: "cd B && git clone ... uboot", then the mainline *)
(* fallback                                                                *)
download_uboot_source(c1, c2) ==
    IF execute_nonempty(c1, TRUE) # 0
    THEN IF execute_nonempty(c2, TRUE) # 0 THEN -1 ELSE 0
    ELSE 0

(* configure_uboot: "cd U && make <defconfig>", then the three alternative *)
(* defconfigs in turn                                                      *)
configure_uboot(cs) ==
    IF execute_nonempty(cs[1], TRUE) # 0
    THEN IF \E i \in 2..4 : execute_nonempty(cs[i], TRUE) = 0 THEN 0 ELSE -1
    ELSE 0

(* build_uboot: "cd U && make -jN" *)
build_uboot(c) == IF execute_nonempty(c, TRUE) # 0 THEN -1 ELSE 0

(* install_uboot: every result dropped *)
install_uboot == 0

(* build_and_install_uboot *)
build_and_install_uboot(c1, c2, cs, cb) ==
    IF download_uboot_source(c1, c2) # 0 THEN -1
    ELSE IF configure_uboot(cs) # 0 THEN -1
    ELSE IF build_uboot(cb) # 0 THEN -1
    ELSE IF install_uboot # 0 THEN -1
    ELSE 0

(* build_rootfs: the single "debootstrap ..." command decides the result *)
build_rootfs(debootstrapOk) ==
    IF execute_nonempty(<<debootstrapOk>>, TRUE) # 0 THEN -1 ELSE 0

(* build_rootfs empties ROOTFS_PATH ("rm -rf R/*") and debootstrap fills it *)
RootfsAfterBuild(tree, rmOk, debootstrapOk) ==
    IF debootstrapOk THEN TRUE ELSE IF rmOk THEN FALSE ELSE tree

(* install_gaming_gpu_drivers: one "chroot R /bin/bash -c '...'" command *)
install_gaming_gpu_drivers(chrootOk) ==
    IF execute_nonempty(<<chrootOk>>, TRUE) # 0 THEN -1 ELSE 0

Bools(n) == [1..n -> BOOLEAN]

Running(p) == alive /\ pc = p

Returned(fn, val) == [fn |-> fn, val |-> val]

(* main: config = {0}, then the defaults; every component flag is 0 and    *)
(* install_gpu_blobs is 1. No statement of the program assigns             *)
(* continue_on_error.                                                      *)
MainConfig == [continue_on_error |-> FALSE, build_kernel |-> FALSE,
               build_rootfs |-> FALSE, build_uboot |-> FALSE,
               create_image |-> FALSE, install_gpu_blobs |-> TRUE,
               ubuntu_codename |-> ""]

Sinks == {"log", "err"}

(* log_fp and error_log_fp are NULL at start; nothing is logged yet *)
(* no logging call is in progress *)
NoLevel == 0 - 1

(* download_mali_blobs has not been entered: enable_vulkan as given, i the *)
(* loop index, tried the drivers a download was started for, failed those  *)
(* whose execute_command_with_retry returned non-zero                      *)
NoMali == [enable_vulkan |-> FALSE, i |-> 0, tried |-> <<>>, failed |-> <<>>]

(* no temporary directory was made: made are the directories mkdtemp       *)
(* created in this call, left those of them that still exist               *)
NoTmp == [made |-> {}, left |-> {}]

(* download_kernel_source has not been entered: i the source being tried   *)
(* (1 Orange Pi, 2 Rockchip, 3 mainline), tried and failed the sources a   *)
(* clone was run for and those whose clone failed all retries, events the  *)
(* clones and removals in the order they ran, temp whether linux_temp      *)
(* exists                                                                  *)
NoSrc == [i |-> 0, tried |-> <<>>, failed |-> <<>>, events |-> <<>>,
          temp |-> FALSE]

(* standard input and the screen: eof once a read has found the input     *)
(* ended, reads the lines read so far, screens the menu screens printed    *)
(* (kept modulo 2)                                                         *)
NoTty == [eof |-> FALSE, reads |-> 0, screens |-> 0]

(* the emulation platform: choice is the menu option typed, emu_platform   *)
(* the field of the configuration (EMU_NONE from main), setups the         *)
(* platform setups install_emulation_packages ran                          *)
NoEmu == [choice |-> 0, emu_platform |-> EMU_NONE, setups |-> <<>>]

NoBld == [fp |-> [k \in Sinks |-> "null"],
          opens |-> [k \in Sinks |-> 0],
          closes |-> [k \in Sinks |-> 0],
          steps |-> <<>>,
          entries |-> <<>>,
          space_result |-> 0,
          apt_result |-> 0,
          pre |-> MainConfig,
          started |-> FALSE,
          logcall |-> NoLevel,
          mali |-> NoMali,
          tmp |-> NoTmp,
          src |-> NoSrc,
          tty |-> NoTty,
          emu |-> NoEmu]

NoRv == [cmd |-> <<>>, null |-> FALSE, show |-> FALSE, max |-> 0,
         attempt |-> 0, results |-> <<>>, notes |-> 0, spawned |-> 0,
         code |-> 0, msg |-> "", sawInterrupt |-> FALSE, fails |-> <<>>,
         errors |-> 0]

(* log_message_detailed: an accepted call is printed, is written to the    *)
(* main log when log_fp is not NULL, and to the error log when its level   *)
(* is at least LOG_LEVEL_ERROR and error_log_fp is not NULL                *)
LogEntry(b, level, tag) ==
    IF Accepted(level)
    THEN [b EXCEPT !.entries = Append(@,
             [level |-> level, tag |-> tag,
              console |-> TRUE,
              log |-> b.fp["log"] # "null",
              err |-> level >= LOG_LEVEL_ERROR /\ b.fp["err"] # "null"])]
    ELSE b

(* src/src/logging.c: log_fp starts NULL and init_logging, the only        *)
(* function that assigns it, has no caller                                 *)
logging_log_fp == "null"

(* src/src/logging.c log_message: no threshold; a line on the console, a   *)
(* line in the log when log_fp is not NULL, never a line in an error log   *)
log_message(b, level, tag) ==
    [b EXCEPT !.entries = Append(@,
        [level |-> level, tag |-> tag,
         console |-> TRUE,
         log |-> logging_log_fp # "null",
         err |-> FALSE])]

(* global_config->verbose: main zeroes the configuration and no statement *)
(* assigns the field                                                       *)
ConfigVerbose == FALSE

(* what execute_command_safe itself logs: "Executing: ..." at LOG_DEBUG    *)
(* when verbose, and nothing else, whatever system() returned              *)
execute_command_safe_logs(b, cmd) ==
    IF cmd.null \/ strlen(cmd.text) = 0 THEN b
    ELSE IF ConfigVerbose THEN LogEntry(b, LOG_LEVEL_DEBUG, "executing")
    ELSE b

(* src/src/logging.c log_error: an "ERROR:" line on the console and a line *)
(* in the log when log_fp is not NULL                                      *)
log_error(b, tag) ==
    [b EXCEPT !.entries = Append(@,
        [level |-> LOG_LEVEL_ERROR, tag |-> tag,
         console |-> TRUE,
         log |-> logging_log_fp # "null",
         err |-> FALSE])]

(* what src/src/system_utils.c execute_command logs: log_error for the     *)
(* rejected command; log_error and log_message("ERROR", "Failed command")  *)
(* for a non-zero status of system(); nothing on success                   *)
execute_command_logs(b, cmd, ret) ==
    IF cmd.null \/ strlen(cmd.text) = 0 THEN log_error(b, "empty")
    ELSE IF ret # 0
         THEN log_message(log_error(b, "status"), LOG_LEVEL_ERROR, "failed")
         ELSE b

NoXv == [fn |-> "none", cmd |-> <<>>, null |-> FALSE, show |-> FALSE,
         spawned |-> 0, code |-> 0, msg |-> ""]

(* an entry point is called from the menu *)
Enter ==
    /\ Running("menu")
    /\ prev' = lastRet
    /\ preOs' = os

(* back in the menu loop: the locals of the call that returned are gone *)
BackToMenu ==
    /\ Running("returned")
    /\ pc' = "menu"
    /\ caller' = "menu"
    /\ imgFailed' = FALSE
    /\ ev' = <<>>
    /\ gTrace' = <<>>
    /\ rv' = NoRv
    /\ xv' = NoXv
    /\ prev' = Returned("none", 0)
    /\ preOs' = OsInit
    /\ bld' = [bld EXCEPT !.steps = <<>>, !.entries = <<>>,
                          !.space_result = 0, !.apt_result = 0,
                          !.pre = MainConfig, !.started = FALSE,
                          !.logcall = NoLevel, !.mali = NoMali,
                          !.tmp = NoTmp, !.src = NoSrc,
                          !.emu.setups = <<>>]
    /\ UNCHANGED <<osVars, alive, exitCode, interrupted, sigOs, sigPc,
                   config, lastRet>>

(***************************************************************************)
(* create_boot_image, one action per step                                  *)
(***************************************************************************)

(* image_creation_menu choices 1 and 2 (create_system_image is a wrapper) *)
MenuCreateImage ==
    /\ Enter
    /\ pc' = "img_alloc"
    /\ caller' = "menu"
    /\ UNCHANGED <<osVars, procVars, imgFailed, ev, lastRet, gTrace, cmdVars>>

ImgReturn(r) ==
    /\ lastRet' = Returned("create_boot_image", r)
    /\ pc' = IF caller = "menu" THEN "returned" ELSE "g_image_ret"

ImgAlloc ==
    /\ Running("img_alloc")
    /\ \E ddOk \in BOOLEAN :
         IF create_image_file(ddOk) # 0
         THEN ImgReturn(-1)
         ELSE pc' = "img_part" /\ lastRet' = lastRet
    /\ UNCHANGED <<osVars, procVars, imgVars, gTrace, cmdVars, callVars>>

ImgPartition ==
    /\ Running("img_part")
    /\ \E oks \in Bools(2) :
         IF partition_orangepi_image(oks) # 0
         THEN ImgReturn(-1)
         ELSE pc' = "img_format" /\ lastRet' = lastRet
    /\ UNCHANGED <<osVars, procVars, imgVars, gTrace, cmdVars, callVars>>

ImgFormat ==
    /\ Running("img_format")
    /\ \E oks \in Bools(4) :
         LET r == format_orangepi_partitions(os, oks) IN
         /\ os' = r.os
         /\ ev' = ev \o r.ev
         /\ IF r.ret # 0
            THEN ImgReturn(-1)
            ELSE pc' = "img_mount" /\ lastRet' = lastRet
    /\ UNCHANGED <<rootfsTree, disk, procVars, caller, imgFailed, gTrace, cmdVars,
                   callVars>>

ImgMount ==
    /\ Running("img_mount")
    /\ \E oks \in Bools(4) :
         LET r == mount_orangepi_partitions(os, oks) IN
         /\ os' = r.os
         /\ ev' = ev \o r.ev
         /\ IF r.ret # 0
            THEN ImgReturn(-1)
            ELSE pc' = "img_copy" /\ lastRet' = lastRet
    /\ UNCHANGED <<rootfsTree, disk, procVars, caller, imgFailed, gTrace, cmdVars,
                   callVars>>

ImgCopy ==
    /\ Running("img_copy")
    /\ \E oks \in Bools(2) :
         IF copy_rootfs_to_image(rootfsTree, oks) # 0
         THEN pc' = "img_unmount" /\ imgFailed' = TRUE
         ELSE pc' = "img_bootloader" /\ imgFailed' = imgFailed
    /\ UNCHANGED <<osVars, procVars, caller, ev, lastRet, gTrace, cmdVars,
                   callVars>>

ImgBootloader ==
    /\ Running("img_bootloader")
    /\ \E have \in BOOLEAN, oks \in Bools(2) :
         IF install_bootloader_to_image(have, oks) # 0
         THEN pc' = "img_unmount" /\ imgFailed' = TRUE
         ELSE pc' = "img_configure" /\ imgFailed' = imgFailed
    /\ UNCHANGED <<osVars, procVars, caller, ev, lastRet, gTrace, cmdVars,
                   callVars>>

ImgConfigure ==
    /\ Running("img_configure")
    /\ \E oks \in Bools(3) :
         IF configure_boot_files(oks) # 0
         THEN pc' = "img_unmount" /\ imgFailed' = TRUE
         ELSE pc' = "img_unmount" /\ imgFailed' = imgFailed
    /\ UNCHANGED <<osVars, procVars, caller, ev, lastRet, gTrace, cmdVars,
                   callVars>>

(* the unmount call of a failure branch (lines 56, 63, 70) or of the       *)
(* success path (line 75); its result is dropped                           *)
ImgUnmount ==
    /\ Running("img_unmount")
    /\ \E oks \in Bools(3), defer \in BOOLEAN :
         LET r == unmount_orangepi_partitions(os, oks, defer) IN
         /\ os' = r.os
         /\ ev' = ev \o r.ev
    /\ IF imgFailed
       THEN ImgReturn(-1)
       ELSE pc' = "img_compress" /\ lastRet' = lastRet
    /\ UNCHANGED <<rootfsTree, disk, procVars, caller, imgFailed, gTrace, cmdVars,
                   callVars>>

ImgCompress ==
    /\ Running("img_compress")
    /\ \E oks \in Bools(3) :
         LET r == compress_final_image(oks) IN
         /\ ev' = ev \o (IF r.xz THEN <<Ev("xz", 0, oks[2])>> ELSE <<>>)
                    \o (IF r.sha256sum THEN <<Ev("sha256sum", 0, oks[3])>>
                        ELSE <<>>)
                    \o <<Ev("compress", 0, r.run = 0)>>
         /\ ImgReturn(r.ret)
    /\ UNCHANGED <<osVars, procVars, caller, imgFailed, gTrace, cmdVars,
                   callVars>>

(* unmount_partitions / unmount_orangepi_partitions called on its own *)
CallUnmount ==
    /\ Enter
    /\ \E oks \in Bools(3), defer \in BOOLEAN :
         LET r == unmount_orangepi_partitions(os, oks, defer) IN
         /\ os' = r.os
         /\ ev' = r.ev
         /\ lastRet' = Returned("unmount_orangepi_partitions", r.ret)
    /\ pc' = "returned"
    /\ UNCHANGED <<rootfsTree, disk, procVars, caller, imgFailed, gTrace, cmdVars>>

(* kernel.c create_system_image(config), called as a whole *)
CallKernelCreateSystemImage ==
    /\ Enter
    /\ \E in \in KInputs :
         LET r == kernel_create_system_image(os, in) IN
         /\ os' = r.os
         /\ ev' = r.ev
         /\ lastRet' = Returned("kernel_create_system_image", r.ret)
    /\ pc' = "returned"
    /\ UNCHANGED <<rootfsTree, disk, procVars, caller, imgFailed, gTrace, cmdVars>>

(***************************************************************************)
(* gaming_optimized_build, one action per stage                            *)
(***************************************************************************)
Done(stage, r) == [stage |-> stage, ret |-> r]

MenuGaming ==
    /\ Enter
    /\ pc' = "g_deps"
    /\ caller' = "gaming"
    /\ UNCHANGED <<osVars, procVars, imgFailed, ev, lastRet, gTrace, cmdVars>>

(* a pipeline that goes on to the next stage whatever the stage returned *)
StageEndsGoesOn(stage, r, next) ==
    /\ gTrace' = Append(gTrace, Done(stage, r))
    /\ pc' = next
    /\ lastRet' = lastRet

(* a required stage returned r: go on, or return -1 from the pipeline *)
StageEnds(stage, r, next) ==
    /\ gTrace' = Append(gTrace, Done(stage, r))
    /\ IF r # 0
       THEN /\ pc' = "returned"
            /\ lastRet' = Returned("gaming_optimized_build", -1)
       ELSE /\ pc' = next
            /\ lastRet' = lastRet

GamingDeps ==
    /\ Running("g_deps")
    /\ \E gcc \in BOOLEAN, git \in BOOLEAN :
         StageEnds("check_dependencies", check_dependencies(gcc, git),
                   "g_kernel")
    /\ UNCHANGED <<osVars, procVars, imgVars, cmdVars, callVars>>

(* apply_gaming_kernel_optimizations returns 0; build_kernel(void) is      *)
(* called for its result                                                   *)
GamingKernel ==
    /\ Running("g_kernel")
    /\ \E r \in {0, -1} : StageEnds("build_kernel", r, "g_uboot")
    /\ UNCHANGED <<osVars, procVars, imgVars, cmdVars, callVars>>

GamingUboot ==
    /\ Running("g_uboot")
    /\ \E c1 \in Bools(2), c2 \in Bools(2), cf \in Bools(4), cb \in Bools(2) :
         LET cs == [i \in 1..4 |-> <<cf[i], TRUE>>] IN
         StageEnds("build_and_install_uboot",
                   build_and_install_uboot(c1, c2, cs, cb), "g_rootfs")
    /\ UNCHANGED <<osVars, procVars, imgVars, cmdVars, callVars>>

GamingRootfs ==
    /\ Running("g_rootfs")
    /\ \E rmOk \in BOOLEAN, ok \in BOOLEAN :
         /\ rootfsTree' = RootfsAfterBuild(rootfsTree, rmOk, ok)
         /\ StageEnds("build_rootfs", build_rootfs(ok), "g_gpu")
    /\ UNCHANGED <<os, disk, procVars, imgVars, cmdVars, callVars>>

GamingGpu ==
    /\ Running("g_gpu")
    /\ \E ok \in BOOLEAN :
         StageEnds("install_gaming_gpu_drivers",
                   install_gaming_gpu_drivers(ok), "g_extras")
    /\ UNCHANGED <<osVars, procVars, imgVars, cmdVars, callVars>>

(* install_gaming_libraries, install_emulation_software,                   *)
(* install_box86_box64, setup_gaming_desktop: results dropped; then        *)
(* create_boot_image is called                                             *)
GamingExtras ==
    /\ Running("g_extras")
    /\ pc' = "img_alloc"
    /\ UNCHANGED <<osVars, procVars, imgVars, lastRet, gTrace, cmdVars, callVars>>

GamingImageReturns ==
    /\ Running("g_image_ret")
    /\ gTrace' = Append(gTrace, Done("create_boot_image", lastRet.val))
    /\ pc' = "returned"
    /\ lastRet' = Returned("gaming_optimized_build",
                           IF lastRet.val # 0 THEN -1 ELSE 0)
    /\ UNCHANGED <<osVars, procVars, imgVars, cmdVars, callVars>>

(***************************************************************************)
(* execute_command_with_retry, one action per loop iteration               *)
(***************************************************************************)
CallRetry ==
    /\ Enter
    /\ \E c \in Cmds, show \in BOOLEAN, max \in 0..MaxRetries :
         rv' = [NoRv EXCEPT !.cmd = c.text, !.null = c.null, !.show = show,
                            !.max = max, !.attempt = 1]
    /\ pc' = "retry_loop"
    /\ UNCHANGED <<osVars, procVars, imgVars, lastRet, gTrace, xv>>

RetryEnds(r) ==
    /\ rv' = r.v
    /\ IF r.done
       THEN /\ pc' = "returned"
            /\ lastRet' = Returned("execute_command_with_retry", r.ret)
       ELSE /\ pc' = pc
            /\ lastRet' = lastRet

RetryIteration ==
    /\ Running("retry_loop")
    /\ rv.attempt <= rv.max
    /\ \E oks \in Bools(NumSimple(rv.cmd)), sinkOk \in BOOLEAN :
         RetryEnds(retry_iteration(rv, interrupted, oks, sinkOk))
    /\ UNCHANGED <<osVars, procVars, imgVars, gTrace, xv, callVars>>

RetryExhausted ==
    /\ Running("retry_loop")
    /\ ~(rv.attempt <= rv.max)
    /\ RetryEnds(retry_exhausted(rv))
    /\ UNCHANGED <<osVars, procVars, imgVars, gTrace, xv, callVars>>

(***************************************************************************)
(* the executors called on their own                                       *)
(***************************************************************************)
CallExecuteCommandSafe ==
    /\ Enter
    /\ \E c \in Cmds, show \in BOOLEAN :
       \E oks \in Bools(NumSimple(c.text)), sinkOk \in BOOLEAN :
         LET r == execute_command_safe(c, oks, show,
                                       [code |-> 0, msg |-> MSG_NONE],
                                       sinkOk) IN
         /\ xv' = [fn |-> "execute_command_safe", cmd |-> c.text,
                   null |-> c.null, show |-> show, spawned |-> r.spawned,
                   code |-> r.code, msg |-> r.msg]
         /\ lastRet' = Returned("execute_command_safe", r.ret)
         /\ bld' = execute_command_safe_logs(bld, c)
    /\ pc' = "returned"
    /\ UNCHANGED <<osVars, alive, exitCode, interrupted, sigOs, sigPc,
                   config, imgVars, gTrace, rv>>

CallExecuteCommand ==
    /\ Enter
    /\ \E c \in Cmds, show \in BOOLEAN :
       \E oks \in Bools(NumSimple(c.text)), sinkOk \in BOOLEAN :
         LET r == execute_command(c, oks, show, sinkOk) IN
         /\ xv' = [fn |-> "execute_command", cmd |-> c.text,
                   null |-> c.null, show |-> show, spawned |-> r.spawned,
                   code |-> 0, msg |-> MSG_NONE]
         /\ lastRet' = Returned("execute_command", r.ret)
         /\ bld' = execute_command_logs(bld, c, r.ret)
    /\ pc' = "returned"
    /\ UNCHANGED <<osVars, alive, exitCode, interrupted, sigOs, sigPc,
                   config, imgVars, gTrace, rv>>

(***************************************************************************)
(* src/builder.c: signal handler                                           *)
(***************************************************************************)

(* fclose(fp) behind "if (fp)": the pointer is not reset, so a stream that *)
(* was closed before is closed again                                       *)
close_sink(b, sink) ==
    IF b.fp[sink] = "null" THEN b
    ELSE [b EXCEPT !.fp[sink] = "closed", !.closes[sink] = @ + 1]

(* cleanup_on_signal: if (log_fp) fclose(log_fp);                          *)
(*                    if (error_log_fp) fclose(error_log_fp)               *)
handler_closes_logs(b) == close_sink(close_sink(b, "log"), "err")

(* cleanup_build: "rm -rf <build_dir>/*" and "rm -rf /tmp/mali_install",   *)
(* results dropped; neither unmounts nor detaches anything                 *)
cleanup_build(o) == o

(* cleanup_on_signal: interrupted = 1, cleanup_build, close the logs,      *)
(* exit(signal + 128). The handler never returns to the interrupted code;  *)
(* the locals of the process are gone with it.                             *)
cleanup_on_signal ==
    /\ alive
    /\ \E sig \in Signals :
         /\ interrupted' = 1
         /\ sigOs' = os
         /\ sigPc' = pc
         /\ os' = cleanup_build(os)
         /\ alive' = FALSE
         /\ exitCode' = sig + 128
    /\ pc' = "exited"
    /\ caller' = "menu"
    /\ imgFailed' = FALSE
    /\ ev' = <<>>
    /\ gTrace' = <<>>
    /\ rv' = NoRv
    /\ xv' = NoXv
    /\ bld' = handler_closes_logs(bld)
    /\ UNCHANGED <<rootfsTree, disk, lastRet, callVars, config>>

(***************************************************************************)
(* src/builder.c: the stage functions and main's shutdown                  *)
(***************************************************************************)

(* "apt update", "apt install -y ...": one simple command *)
SimpleCommand == <<"x">>

(* check_disk_space *)
check_disk_space(statOk, enough) ==
    IF ~statOk THEN ERROR_UNKNOWN
    ELSE IF ~enough THEN ERROR_INSUFFICIENT_SPACE
    ELSE ERROR_SUCCESS

(* create_directory_safe on a non-empty path *)
create_directory_safe(exists, mkdirOk) ==
    IF ~exists /\ ~mkdirOk THEN -1 ELSE 0

(* fp = fopen(FILE, "a"): the old value of the pointer is overwritten, an  *)
(* open stream it held stays open and can no longer be closed              *)
open_sink(b, sink, ok) ==
    [b EXCEPT !.fp[sink] = IF ok THEN "open" ELSE "null",
              !.opens[sink] = IF ok THEN @ + 1 ELSE @]

RetryInputs(n, max) ==
    [1..max -> [oks : Bools(n), sinkOk : BOOLEAN]]

RECURSIVE retry_loop(_, _)
(* the for loop of execute_command_with_retry and what follows it; ins[k]  *)
(* is what the k-th run of the command meets                               *)
retry_loop(v, ins) ==
    IF v.attempt <= v.max
    THEN LET r == retry_iteration(v, 0, ins[v.attempt].oks,
                                  ins[v.attempt].sinkOk)
         IN IF r.done THEN r ELSE retry_loop(r.v, ins)
    ELSE retry_exhausted(v)

(* execute_command_with_retry(cmd, show_output, max_retries), interrupted  *)
(* being 0 for as long as the process runs                                 *)
execute_command_with_retry(text, show, max, ins) ==
    retry_loop([NoRv EXCEPT !.cmd = text, !.show = show, !.max = max,
                            !.attempt = 1], ins)

(* the error entry the wrapper writes through log_error_context *)
LogWrapper(b, v) ==
    IF v.errors > 0 THEN LogEntry(b, LOG_LEVEL_ERROR, "retries") ELSE b

StageReturns(fn, val) ==
    /\ pc' = "returned"
    /\ lastRet' = Returned(fn, val)

StageFrame == UNCHANGED <<osVars, alive, exitCode, interrupted, sigOs, sigPc,
                          imgVars, gTrace, xv, callVars>>

CallSetupBuildEnvironment ==
    /\ Enter
    /\ \A k \in Sinks : bld.opens[k] < MaxOpens
    /\ pc' = "env_disk"
    /\ bld' = [bld EXCEPT !.pre = config]
    /\ UNCHANGED <<osVars, alive, exitCode, interrupted, sigOs, sigPc,
                   imgVars, gTrace, xv, rv, lastRet, config>>

(* a stage that returns on a failed check whatever continue_on_error says *)
EnvDiskHalts ==
    /\ Running("env_disk")
    /\ \E statOk \in BOOLEAN, enough \in BOOLEAN :
         LET space_result == check_disk_space(statOk, enough)
             b1 == [bld EXCEPT !.steps = Append(@, "disk"),
                               !.space_result = space_result]
         IN IF space_result # ERROR_SUCCESS
            THEN /\ bld' = LogEntry(b1, LOG_LEVEL_ERROR, "disk")
                 /\ StageReturns("setup_build_environment", space_result)
            ELSE /\ bld' = b1
                 /\ pc' = "env_mkdir"
                 /\ lastRet' = lastRet
    /\ StageFrame
    /\ UNCHANGED <<rv, config>>

(* int space_result = check_disk_space("/tmp", 15000); ...                 *)
EnvDisk ==
    /\ Running("env_disk")
    /\ \E statOk \in BOOLEAN, enough \in BOOLEAN :
         LET space_result == check_disk_space(statOk, enough)
             b1 == [bld EXCEPT !.steps = Append(@, "disk"),
                               !.space_result = space_result]
             b2 == LogEntry(b1, LOG_LEVEL_ERROR, "disk")
         IN IF space_result # ERROR_SUCCESS
            THEN IF ~config.continue_on_error
                 THEN /\ bld' = b2
                      /\ StageReturns("setup_build_environment", space_result)
                 ELSE /\ bld' = LogEntry(b2, LOG_LEVEL_WARNING, "continue")
                      /\ pc' = "env_mkdir"
                      /\ lastRet' = lastRet
            ELSE /\ bld' = b1
                 /\ pc' = "env_mkdir"
                 /\ lastRet' = lastRet
    /\ StageFrame
    /\ UNCHANGED <<rv, config>>

(* if (create_directory_safe(BUILD_DIR, &error_ctx) != 0) return ...       *)
EnvMkdir ==
    /\ Running("env_mkdir")
    /\ bld' = [bld EXCEPT !.steps = Append(@, "mkdir")]
    /\ \E exists \in BOOLEAN, mkdirOk \in BOOLEAN :
         IF create_directory_safe(exists, mkdirOk) # 0
         THEN StageReturns("setup_build_environment", ERROR_FILE_NOT_FOUND)
         ELSE pc' = "env_logs" /\ lastRet' = lastRet
    /\ StageFrame
    /\ UNCHANGED <<rv, config>>

(* log_fp = fopen(LOG_FILE, "a"); error_log_fp = fopen(ERROR_LOG_FILE, "a") *)
EnvOpenLogs ==
    /\ Running("env_logs")
    /\ \E okLog \in BOOLEAN, okErr \in BOOLEAN :
         LET b1 == open_sink(bld, "log", okLog)
             b2 == IF okLog THEN b1
                   ELSE LogEntry(b1, LOG_LEVEL_WARNING, "no_log")
             b3 == open_sink(b2, "err", okErr)
             b4 == IF okErr THEN b3
                   ELSE LogEntry(b3, LOG_LEVEL_WARNING, "no_error_log")
         IN bld' = [b4 EXCEPT !.steps = Append(@, "logs")]
    /\ pc' = "env_apt"
    /\ StageFrame
    /\ UNCHANGED <<rv, lastRet, config>>

(* if (execute_command_with_retry("apt update", 1, 3) != 0) { ... }        *)
EnvAptUpdate ==
    /\ Running("env_apt")
    /\ \E ins \in RetryInputs(1, 3) :
         LET r  == execute_command_with_retry(SimpleCommand, TRUE, 3, ins)
             b1 == LogWrapper([bld EXCEPT !.steps = Append(@, "apt"),
                                          !.apt_result = r.ret], r.v)
             b2 == LogEntry(b1, LOG_LEVEL_ERROR, "stage")
         IN /\ rv' = r.v
            /\ IF r.ret # 0
               THEN IF ~config.continue_on_error
                    THEN /\ bld' = b2
                         /\ StageReturns("setup_build_environment",
                                         ERROR_NETWORK_FAILURE)
                    ELSE /\ bld' = LogEntry(b2, LOG_LEVEL_WARNING, "continue")
                         /\ StageReturns("setup_build_environment",
                                         ERROR_SUCCESS)
               ELSE /\ bld' = b1
                    /\ StageReturns("setup_build_environment", ERROR_SUCCESS)
    /\ StageFrame
    /\ UNCHANGED config

(* one call of log_message_detailed (the LOG_DEBUG .. LOG_CRITICAL macros) *)
(* at any level, with the sinks in whatever state the process left them    *)
CallLogMessageDetailed ==
    /\ Enter
    /\ \E level \in LOG_LEVEL_DEBUG..LOG_LEVEL_CRITICAL :
         bld' = LogEntry([bld EXCEPT !.logcall = level], level, "call")
    /\ StageReturns("log_message_detailed", 0)
    /\ UNCHANGED <<osVars, alive, exitCode, interrupted, sigOs, sigPc,
                   imgVars, gTrace, xv, rv, config>>

(* one call of logging.c log_message ("DEBUG", "INFO", "WARNING", "ERROR", *)
(* "CRITICAL" numbered as log_level_t numbers them)                        *)
CallLogMessage ==
    /\ Enter
    /\ \E level \in LOG_LEVEL_DEBUG..LOG_LEVEL_CRITICAL :
         bld' = log_message([bld EXCEPT !.logcall = level], level, "call")
    /\ StageReturns("log_message", 0)
    /\ UNCHANGED <<osVars, alive, exitCode, interrupted, sigOs, sigPc,
                   imgVars, gTrace, xv, rv, config>>

(* install_prerequisites: one "apt install -y ..." through the wrapper     *)
CallInstallPrerequisites ==
    /\ Enter
    /\ \E ins \in RetryInputs(1, 2) :
         LET r  == execute_command_with_retry(SimpleCommand, TRUE, 2, ins)
             b0 == [bld EXCEPT !.pre = config,
                               !.steps = <<"apt_install">>]
             b1 == LogWrapper(b0, r.v)
         IN /\ rv' = r.v
            /\ IF r.ret # 0
               THEN /\ bld' = LogEntry(b1, LOG_LEVEL_ERROR, "stage")
                    /\ StageReturns("install_prerequisites",
                                    ERROR_DEPENDENCY_MISSING)
               ELSE /\ bld' = b1
                    /\ StageReturns("install_prerequisites", ERROR_SUCCESS)
    /\ UNCHANGED <<osVars, alive, exitCode, interrupted, sigOs, sigPc,
                   imgVars, gTrace, xv, config>>

(***************************************************************************)
(* src/builder.c: download_mali_blobs                                      *)
(***************************************************************************)

(* mali_drivers[]: firmware, X11/Wayland driver (both required), Vulkan    *)
(* driver (not required); vulkan is strstr(description, "Vulkan")          *)
mali_drivers ==
    << [vulkan |-> FALSE, required |-> TRUE],
       [vulkan |-> FALSE, required |-> TRUE],
       [vulkan |-> TRUE,  required |-> FALSE] >>

(* download_mali_blobs(config) up to the loop: the directory is created    *)
(* and entered; enable_vulkan is 1 from main and from quick setup, and     *)
(* either value after the custom menu                                      *)
CallDownloadMaliBlobs ==
    /\ Enter
    /\ \E enable_vulkan \in BOOLEAN, exists \in BOOLEAN, mkdirOk \in BOOLEAN,
          chdirOk \in BOOLEAN :
         LET b0 == LogEntry([bld EXCEPT !.mali.enable_vulkan = enable_vulkan],
                            LOG_LEVEL_INFO, "downloading")
         IN IF create_directory_safe(exists, mkdirOk) # 0
            THEN /\ bld' = b0
                 /\ StageReturns("download_mali_blobs", ERROR_FILE_NOT_FOUND)
            ELSE IF ~chdirOk
            THEN /\ bld' = LogEntry(b0, LOG_LEVEL_ERROR, "chdir")
                 /\ StageReturns("download_mali_blobs", ERROR_FILE_NOT_FOUND)
            ELSE /\ bld' = [b0 EXCEPT !.mali.i = 1]
                 /\ pc' = "mali_loop"
                 /\ lastRet' = lastRet
    /\ StageFrame
    /\ UNCHANGED <<rv, config>>

(* the loop with the return on a required driver's failure left out *)
MaliDriverGoesOn ==
    /\ Running("mali_loop")
    /\ \E ins \in RetryInputs(1, 3) :
         LET i == bld.mali.i
             r == execute_command_with_retry(SimpleCommand, TRUE, 3, ins)
             b1 == LogWrapper(LogEntry([bld EXCEPT !.mali.tried = Append(@, i)],
                                       LOG_LEVEL_INFO, "driver"), r.v)
             b2 == [b1 EXCEPT !.mali.failed = Append(@, i)]
         IN IF i > Len(mali_drivers)
            THEN /\ bld' = LogEntry(bld, LOG_LEVEL_INFO, "downloaded")
                 /\ rv' = rv
                 /\ StageReturns("download_mali_blobs", ERROR_SUCCESS)
            ELSE IF ~bld.mali.enable_vulkan /\ mali_drivers[i].vulkan
            THEN /\ bld' = [LogEntry(bld, LOG_LEVEL_INFO, "skipping")
                              EXCEPT !.mali.i = i + 1]
                 /\ rv' = rv
                 /\ pc' = pc
                 /\ lastRet' = lastRet
            ELSE /\ rv' = r.v
                 /\ pc' = pc
                 /\ lastRet' = lastRet
                 /\ IF r.ret # 0
                    THEN bld' = [LogEntry(b2, LOG_LEVEL_WARNING, "optional")
                                   EXCEPT !.mali.i = i + 1]
                    ELSE bld' = [b1 EXCEPT !.mali.i = i + 1]
    /\ StageFrame
    /\ UNCHANGED config

(* for (i = 0; mali_drivers[i].url != NULL; i++) { ... }: one iteration,   *)
(* or the end of the loop                                                  *)
MaliDriver ==
    /\ Running("mali_loop")
    /\ \E ins \in RetryInputs(1, 3) :
         LET i == bld.mali.i
             r == execute_command_with_retry(SimpleCommand, TRUE, 3, ins)
             b1 == LogWrapper(LogEntry([bld EXCEPT !.mali.tried = Append(@, i)],
                                       LOG_LEVEL_INFO, "driver"), r.v)
             b2 == [b1 EXCEPT !.mali.failed = Append(@, i)]
         IN IF i > Len(mali_drivers)
            THEN /\ bld' = LogEntry(bld, LOG_LEVEL_INFO, "downloaded")
                 /\ rv' = rv
                 /\ StageReturns("download_mali_blobs", ERROR_SUCCESS)
            ELSE IF ~bld.mali.enable_vulkan /\ mali_drivers[i].vulkan
            THEN /\ bld' = [LogEntry(bld, LOG_LEVEL_INFO, "skipping")
                              EXCEPT !.mali.i = i + 1]
                 /\ rv' = rv
                 /\ pc' = pc
                 /\ lastRet' = lastRet
            ELSE /\ rv' = r.v
                 /\ IF r.ret # 0
                    THEN IF mali_drivers[i].required
                         THEN /\ bld' = LogEntry(b2, LOG_LEVEL_ERROR,
                                                 "required")
                              /\ StageReturns("download_mali_blobs",
                                              ERROR_GPU_DRIVER_FAILED)
                         ELSE /\ bld' = [LogEntry(b2, LOG_LEVEL_WARNING,
                                                  "optional")
                                           EXCEPT !.mali.i = i + 1]
                              /\ pc' = pc
                              /\ lastRet' = lastRet
                    ELSE /\ bld' = [b1 EXCEPT !.mali.i = i + 1]
                         /\ pc' = pc
                         /\ lastRet' = lastRet
    /\ StageFrame
    /\ UNCHANGED config

(***************************************************************************)
(* src/src/gpu.c: the temporary directories of the GPU driver installation *)
(***************************************************************************)

(* mkdtemp(template): the directory exists from now on *)
Mkdtemp(t, dir) == [made |-> t.made \cup {dir}, left |-> t.left \cup {dir}]

(* system("rm -rf DIR"): the directory is gone when rm succeeded *)
RmRf(t, dir, ok) == IF ok THEN [t EXCEPT !.left = @ \ {dir}] ELSE t

FirmwareInputs ==
    [mkdtempOk : BOOLEAN, cloneOk : BOOLEAN, copyG610Ok : BOOLEAN,
     copyAllOk : BOOLEAN, rmOk : BOOLEAN]

(* install_gpu_firmware: mkdtemp, git clone, copy of the g610 files or of  *)
(* all rockchip files, rm -rf; the two failure returns stand before the    *)
(* rm -rf                                                                  *)
install_gpu_firmware(t, in) ==
    IF ~in.mkdtempOk THEN [ret |-> -1, tmp |-> t]
    ELSE LET t1 == Mkdtemp(t, "linux-firmware") IN
         IF ~in.cloneOk THEN [ret |-> -1, tmp |-> t1]
         ELSE IF ~in.copyG610Ok /\ ~in.copyAllOk THEN [ret |-> -1, tmp |-> t1]
         ELSE [ret |-> 0, tmp |-> RmRf(t1, "linux-firmware", in.rmOk)]

LegacyInputs ==
    [mkdtempOk : BOOLEAN, mesaOk : BOOLEAN, libmaliOk : BOOLEAN,
     firmware : FirmwareInputs, rmOk : BOOLEAN]

(* install_gpu_drivers_legacy: mkdtemp, the three component installations  *)
(* (a failure is logged and the function goes on), configure_vulkan,       *)
(* rm -rf of the build directory                                           *)
install_gpu_drivers_legacy(t, in) ==
    IF ~in.mkdtempOk THEN [ret |-> -1, tmp |-> t]
    ELSE LET t1 == Mkdtemp(t, "gpu_build")
             fw == install_gpu_firmware(t1, in.firmware)
         IN [ret |-> 0, tmp |-> RmRf(fw.tmp, "gpu_build", in.rmOk)]

CallInstallGpuFirmware ==
    /\ Enter
    /\ \E in \in FirmwareInputs :
         LET r == install_gpu_firmware(bld.tmp, in) IN
         /\ bld' = [bld EXCEPT !.tmp = r.tmp]
         /\ StageReturns("install_gpu_firmware", r.ret)
    /\ StageFrame
    /\ UNCHANGED <<rv, config>>

CallInstallGpuDriversLegacy ==
    /\ Enter
    /\ \E in \in LegacyInputs :
         LET r == install_gpu_drivers_legacy(bld.tmp, in) IN
         /\ bld' = [bld EXCEPT !.tmp = r.tmp]
         /\ StageReturns("install_gpu_drivers_legacy", r.ret)
    /\ StageFrame
    /\ UNCHANGED <<rv, config>>

(***************************************************************************)
(* src/src/kernel.c: download_kernel_source                                *)
(***************************************************************************)

(* the three approaches, in program order *)
KernelSources == <<"orangepi", "rockchip", "mainline">>

(* execute_command_safe("rm -rf linux_temp", 0, &error_ctx), result not    *)
(* looked at: the directory is gone when the command succeeded             *)
remove_linux_temp(s, rmOk) ==
    LET r == execute_command_safe([null |-> FALSE, text |-> SimpleCommand],
                                  <<rmOk>>, FALSE,
                                  [code |-> 0, msg |-> MSG_NONE], TRUE)
    IN [s EXCEPT !.events = Append(@, [op |-> "rm", src |-> 0,
                                       clean |-> r.ret = 0 \/ ~s.temp]),
                 !.temp = @ /\ r.ret # 0]

(* download_kernel_source(config) up to the first clone (config is never   *)
(* NULL): chdir to the build directory, removal of an old linux_temp,      *)
(* creation of the source directory                                        *)
CallDownloadKernelSource ==
    /\ Enter
    /\ \E chdirOk \in BOOLEAN, old \in BOOLEAN, rmOk \in BOOLEAN,
          exists \in BOOLEAN, mkdirOk \in BOOLEAN :
         LET b0 == LogEntry(bld, LOG_LEVEL_INFO, "setting_up")
             s1 == remove_linux_temp([NoSrc EXCEPT !.temp = old], rmOk)
             b1 == [LogEntry(b0, LOG_LEVEL_INFO, "cleaning")
                      EXCEPT !.src = s1]
         IN IF ~chdirOk
            THEN /\ bld' = LogEntry(b0, LOG_LEVEL_ERROR, "chdir")
                 /\ StageReturns("download_kernel_source",
                                 ERROR_FILE_NOT_FOUND)
            ELSE IF create_directory_safe(exists, mkdirOk) # 0
            THEN /\ bld' = LogEntry(b1, LOG_LEVEL_ERROR, "mkdir")
                 /\ StageReturns("download_kernel_source",
                                 ERROR_FILE_NOT_FOUND)
            ELSE /\ bld' = [b1 EXCEPT !.src.i = 1]
                 /\ pc' = "src_try"
                 /\ lastRet' = lastRet
    /\ StageFrame
    /\ UNCHANGED <<rv, config>>

(* the approaches with the return after a successful Orange Pi or Rockchip *)
(* clone left out                                                          *)
SourceTryGoesOn ==
    /\ Running("src_try")
    /\ \E ins \in RetryInputs(1, 2), leftover \in BOOLEAN, rmOk \in BOOLEAN,
          chdirOk \in BOOLEAN :
         LET i  == bld.src.i
             r  == execute_command_with_retry(SimpleCommand, TRUE, 2, ins)
             s1 == [bld.src EXCEPT
                      !.tried = Append(@, i),
                      !.events = Append(@, [op |-> "clone", src |-> i,
                                            clean |-> ~bld.src.temp])]
             b1 == LogWrapper(LogEntry([bld EXCEPT !.src = s1],
                                       LOG_LEVEL_INFO, "trying"), r.v)
             s2 == remove_linux_temp([s1 EXCEPT !.failed = Append(@, i),
                                                !.temp = @ \/ leftover],
                                     rmOk)
             b2 == [b1 EXCEPT !.src = s2]
         IN /\ rv' = r.v
            /\ IF i < Len(KernelSources)
               THEN /\ bld' = IF r.ret = 0
                              THEN [LogEntry(b1, LOG_LEVEL_INFO, "downloaded")
                                      EXCEPT !.src.i = i + 1]
                              ELSE [LogEntry(b2, LOG_LEVEL_WARNING, "next")
                                      EXCEPT !.src.i = i + 1]
                    /\ UNCHANGED <<pc, lastRet>>
               ELSE IF r.ret = 0
               THEN /\ bld' = LogEntry(b1, LOG_LEVEL_INFO, "downloaded")
                    /\ StageReturns("download_kernel_source", ERROR_SUCCESS)
               ELSE /\ bld' = LogEntry(b2, LOG_LEVEL_ERROR, "all_failed")
                    /\ StageReturns("download_kernel_source",
                                    ERROR_NETWORK_FAILURE)
    /\ StageFrame
    /\ UNCHANGED config

(* one approach: git clone into linux_temp with two attempts (the mainline *)
(* command, "clone -b v<version> || clone", taken as one command). On      *)
(* success the sources are moved and the function returns; the mainline    *)
(* path first changes into the source directory. On failure linux_temp is  *)
(* removed and the next approach follows, or ERROR_NETWORK_FAILURE          *)
SourceTry ==
    /\ Running("src_try")
    /\ \E ins \in RetryInputs(1, 2), leftover \in BOOLEAN, rmOk \in BOOLEAN,
          chdirOk \in BOOLEAN :
         LET i  == bld.src.i
             r  == execute_command_with_retry(SimpleCommand, TRUE, 2, ins)
             s1 == [bld.src EXCEPT
                      !.tried = Append(@, i),
                      !.events = Append(@, [op |-> "clone", src |-> i,
                                            clean |-> ~bld.src.temp])]
             b1 == LogWrapper(LogEntry([bld EXCEPT !.src = s1],
                                       LOG_LEVEL_INFO, "trying"), r.v)
             s2 == remove_linux_temp([s1 EXCEPT !.failed = Append(@, i),
                                                !.temp = @ \/ leftover],
                                     rmOk)
             b2 == [b1 EXCEPT !.src = s2]
         IN /\ rv' = r.v
            /\ IF r.ret = 0
               THEN IF i = Len(KernelSources) /\ ~chdirOk
                    THEN /\ bld' = LogEntry(b1, LOG_LEVEL_ERROR, "chdir")
                         /\ StageReturns("download_kernel_source",
                                         ERROR_FILE_NOT_FOUND)
                    ELSE /\ bld' = LogEntry(b1, LOG_LEVEL_INFO, "downloaded")
                         /\ StageReturns("download_kernel_source",
                                         ERROR_SUCCESS)
               ELSE IF i < Len(KernelSources)
               THEN /\ bld' = [LogEntry(b2, LOG_LEVEL_WARNING, "next")
                                 EXCEPT !.src.i = i + 1]
                    /\ UNCHANGED <<pc, lastRet>>
               ELSE /\ bld' = LogEntry(b2, LOG_LEVEL_ERROR, "all_failed")
                    /\ StageReturns("download_kernel_source",
                                    ERROR_NETWORK_FAILURE)
    /\ StageFrame
    /\ UNCHANGED config

(* main after start_interactive_build: if (log_fp) fclose(log_fp);         *)
MainCloseLog ==
    /\ Running("menu")
    /\ bld' = close_sink(bld, "log")
    /\ pc' = "main_close"
    /\ UNCHANGED <<osVars, alive, exitCode, interrupted, sigOs, sigPc,
                   imgVars, gTrace, xv, rv, lastRet, callVars, config>>

(* if (error_log_fp) fclose(error_log_fp); ... return result               *)
MainCloseErrorLog ==
    /\ Running("main_close")
    /\ bld' = close_sink(bld, "err")
    /\ pc' = "exited"
    /\ alive' = FALSE
    /\ exitCode' \in {ERROR_SUCCESS, ERROR_USER_CANCELLED}
    /\ UNCHANGED <<osVars, interrupted, sigOs, sigPc,
                   imgVars, gTrace, xv, rv, lastRet, callVars, config>>

(***************************************************************************)
(* src/builder.c: quick setup and the custom-build menu;                   *)
(* src/src/kernel.c: build_ubuntu_rootfs                                   *)
(***************************************************************************)

(* ubuntu_releases[]: focal, jammy, noble, oracular, plucky *)
Codenames == {"focal", "jammy", "noble", "oracular", "plucky"}

ComponentFlags == {"build_kernel", "build_rootfs", "build_uboot",
                   "create_image"}

(* perform_quick_setup: two confirmations around the assignment of the     *)
(* defaults; after the second one only progress lines are printed          *)
perform_quick_setup(cfg, proceed, start) ==
    IF ~proceed THEN [ret |-> ERROR_USER_CANCELLED, config |-> cfg,
                      started |-> FALSE]
    ELSE LET c1 == [cfg EXCEPT !.ubuntu_codename = "plucky",
                               !.install_gpu_blobs = TRUE,
                               !.build_kernel = TRUE,
                               !.build_rootfs = TRUE,
                               !.build_uboot = TRUE,
                               !.create_image = TRUE]
         IN IF ~start
            THEN [ret |-> ERROR_USER_CANCELLED, config |-> c1,
                  started |-> FALSE]
            ELSE [ret |-> ERROR_SUCCESS, config |-> c1, started |-> TRUE]

CallPerformQuickSetup ==
    /\ Enter
    /\ \E proceed \in BOOLEAN, start \in BOOLEAN :
         LET r == perform_quick_setup(config, proceed, start) IN
         /\ config' = r.config
         /\ bld' = [bld EXCEPT !.pre = config, !.started = r.started]
         /\ StageReturns("perform_quick_setup", r.ret)
    /\ UNCHANGED <<osVars, alive, exitCode, interrupted, sigOs, sigPc,
                   imgVars, gTrace, xv, rv>>

CallPerformCustomBuild ==
    /\ Enter
    /\ pc' = "custom_menu"
    /\ UNCHANGED <<osVars, alive, exitCode, interrupted, sigOs, sigPc,
                   imgVars, gTrace, xv, rv, lastRet, config, bld>>

CustomFrame == UNCHANGED <<osVars, alive, exitCode, interrupted, sigOs, sigPc,
                           imgVars, gTrace, xv, rv, callVars>>

(* case 2: Ubuntu version *)
CustomUbuntu ==
    /\ Running("custom_menu")
    /\ \E c \in Codenames : config' = [config EXCEPT !.ubuntu_codename = c]
    /\ UNCHANGED <<pc, lastRet, bld>>
    /\ CustomFrame

(* case 4: GPU options 1 (toggle), 4 (enable all), 5 (disable all) *)
CustomGpu ==
    /\ Running("custom_menu")
    /\ \E choice \in {1, 4, 5} :
         config' = [config EXCEPT !.install_gpu_blobs =
                       CASE choice = 1 -> ~@
                         [] choice = 4 -> TRUE
                         [] choice = 5 -> FALSE]
    /\ UNCHANGED <<pc, lastRet, bld>>
    /\ CustomFrame

(* case 5: build components 1..4 *)
CustomComponent ==
    /\ Running("custom_menu")
    /\ \E f \in ComponentFlags : config' = [config EXCEPT ![f] = ~@]
    /\ UNCHANGED <<pc, lastRet, bld>>
    /\ CustomFrame

(* case 7: after the confirmation a progress line is printed and the       *)
(* function returns; no stage function is called                           *)
CustomStart ==
    /\ Running("custom_menu")
    /\ \E confirm \in BOOLEAN :
         IF confirm
         THEN /\ bld' = [bld EXCEPT !.pre = config, !.started = TRUE]
              /\ StageReturns("perform_custom_build", ERROR_SUCCESS)
         ELSE UNCHANGED <<pc, lastRet, bld>>
    /\ UNCHANGED config
    /\ CustomFrame

(* case 0 *)
CustomLeave ==
    /\ Running("custom_menu")
    /\ StageReturns("perform_custom_build", ERROR_SUCCESS)
    /\ UNCHANGED <<config, bld>>
    /\ CustomFrame

RootfsInputs == [mkdirOk : BOOLEAN, script : BOOLEAN, lnOk : BOOLEAN,
                 lnSink : BOOLEAN, debOk : BOOLEAN, debSink : BOOLEAN,
                 restOk : BOOLEAN]

NoCtx == [code |-> 0, msg |-> MSG_NONE]

(* build_ubuntu_rootfs up to the first debootstrap stage; what follows it  *)
(* (second stage, package installation) only reads the configuration       *)
build_ubuntu_rootfs(cfg, in) ==
    IF create_directory_safe(FALSE, in.mkdirOk) # 0
    THEN [ret |-> ERROR_FILE_NOT_FOUND, config |-> cfg]
    ELSE LET ln == execute_command_safe(
                       [null |-> FALSE, text |-> SimpleCommand],
                       <<in.lnOk>>, TRUE, NoCtx, in.lnSink)
             c1 == IF ~in.script /\ ln.ret # 0
                   THEN [cfg EXCEPT !.ubuntu_codename = "jammy"]
                   ELSE cfg
         IN IF execute_command_safe(
                   [null |-> FALSE, text |-> SimpleCommand],
                   <<in.debOk>>, TRUE, NoCtx, in.debSink).ret # 0
            THEN [ret |-> ERROR_INSTALLATION_FAILED, config |-> c1]
            ELSE [ret |-> IF in.restOk THEN ERROR_SUCCESS
                          ELSE ERROR_INSTALLATION_FAILED,
                  config |-> c1]

CallBuildUbuntuRootfs ==
    /\ Enter
    /\ \E in \in RootfsInputs :
         LET r == build_ubuntu_rootfs(config, in) IN
         /\ config' = r.config
         /\ bld' = [bld EXCEPT !.pre = config,
                               !.steps = <<"build_ubuntu_rootfs">>]
         /\ StageReturns("build_ubuntu_rootfs", r.ret)
    /\ UNCHANGED <<osVars, alive, exitCode, interrupted, sigOs, sigPc,
                   imgVars, gTrace, xv, rv>>

(***************************************************************************)
(* The image file as a disk: partition table, filesystems, mounts by       *)
(* partition number, bootloader writes (image.c, kernel.c, uboot.c)        *)
(***************************************************************************)

Part(name, first, last) == [name |-> name, first |-> first, last |-> last]

(* image.c: long long image_size_mb = 6144, in 512-byte sectors *)
ImageSectors == 6144 * 2048

(* partition_orangepi_image: the --new / --change-name arguments of sgdisk; *)
(* partition 5 ends at the end of the disk                                 *)
OrangePiLayout ==
    << Part("loader1", 64, 8191),
       Part("loader2", 8192, 16383),
       Part("trust", 16384, 24575),
       Part("boot", 24576, 32767),
       Part("rootfs", 32768, ImageSectors - 1) >>

(* kernel.c: config->image_size is "8192" (MiB) *)
KernelImageSectors == 8192 * 2048

(* kernel.c create_system_image: the three parted mkpart commands, in MiB  *)
(* of 2048 sectors                                                         *)
KernelParts ==
    << Part("loader", 64, 8 * 2048 - 1),
       Part("boot", 8 * 2048, 256 * 2048 - 1),
       Part("root", 256 * 2048, KernelImageSectors - 1) >>

NoDisk == [table |-> <<>>, fs |-> <<>>, mounts |-> {}, writes |-> {}]

Write(bin, seek, by) == [bin |-> bin, seek |-> seek, by |-> by]

(* mkfs on partition n of the table: fails when there is no partition n *)
Mkfs(d, n, type, ok) ==
    IF ok /\ n <= Len(d.table) THEN [d EXCEPT !.fs[n] = type] ELSE d

MkfsOk(d, n, ok) == ok /\ n <= Len(d.table)

(* mount of partition n: fails when it holds no filesystem *)
MountOk(d, n, ok) == ok /\ n <= Len(d.table) /\ d.fs[n] # "none"

MountPart(d, n, at, ok) ==
    IF MountOk(d, n, ok)
    THEN [d EXCEPT !.mounts = @ \cup {[part |-> n, at |-> at]}]
    ELSE d

WithTable(t) == [NoDisk EXCEPT !.table = t,
                               !.fs = [i \in 1..Len(t) |-> "none"]]

(* install_bootloader_to_image with u-boot.itb written into the boot       *)
(* partition                                                               *)
image_bootloader_writes_shifted(haveRockchipBin, oks) ==
    IF haveRockchipBin
    THEN IF oks[1] THEN {Write("u-boot-rockchip.bin", 64, "image")} ELSE {}
    ELSE (IF oks[1] THEN {Write("idbloader.img", 64, "image")} ELSE {})
         \cup (IF oks[1] /\ oks[2]
               THEN {Write("u-boot.itb", 24576, "image")} ELSE {})

(* install_bootloader_to_image: the dd commands that are run and succeed *)
image_bootloader_writes(haveRockchipBin, oks) ==
    IF haveRockchipBin
    THEN IF oks[1] THEN {Write("u-boot-rockchip.bin", 64, "image")} ELSE {}
    ELSE (IF oks[1] THEN {Write("idbloader.img", 64, "image")} ELSE {})
         \cup (IF oks[1] /\ oks[2]
               THEN {Write("u-boot.itb", 16384, "image")} ELSE {})

(* flash-uboot.sh as install_uboot generates it, run on a device *)
flash_script_writes(haveRockchipBin, haveParts, oks) ==
    IF haveRockchipBin
    THEN IF oks[1] THEN {Write("u-boot-rockchip.bin", 64, "script")} ELSE {}
    ELSE IF haveParts
         THEN (IF oks[1] THEN {Write("idbloader.img", 64, "script")} ELSE {})
              \cup (IF oks[2] THEN {Write("u-boot.itb", 16384, "script")}
                    ELSE {})
         ELSE {}

ImageInputs == [sgdisk : Bools(2), mkfs : Bools(2), mount : Bools(2),
                rsync : BOOLEAN, have : BOOLEAN, dd : Bools(2)]

(* create_boot_image as the image file sees it: partition, format, mount,  *)
(* copy, install the bootloader; each step is reached only if the one      *)
(* before it returned 0. mounts are the mounts that were made.             *)
image_disk(in) ==
    LET d1 == IF in.sgdisk[1] /\ in.sgdisk[2] THEN WithTable(OrangePiLayout)
              ELSE NoDisk
        fmt == <<TRUE, MkfsOk(d1, 4, in.mkfs[1]), MkfsOk(d1, 5, in.mkfs[2]),
                 TRUE>>
        d2 == IF Runs(fmt, 2) THEN Mkfs(d1, 4, "fat32", in.mkfs[1]) ELSE d1
        d3 == IF Runs(fmt, 3) THEN Mkfs(d2, 5, "ext4", in.mkfs[2]) ELSE d2
        mnt == <<TRUE, TRUE, MountOk(d3, 5, in.mount[1]),
                 MountOk(d3, 4, in.mount[2]), TRUE>>
        d4 == IF Runs(mnt, 3) THEN MountPart(d3, 5, "M", in.mount[1]) ELSE d3
        d5 == IF Runs(mnt, 4) THEN MountPart(d4, 4, "M/boot", in.mount[2])
              ELSE d4
        d6 == [d5 EXCEPT !.writes = image_bootloader_writes(in.have, in.dd)]
    IN IF partition_orangepi_image(in.sgdisk) # 0 THEN d1
       ELSE IF execute_nonempty(fmt, TRUE) # 0 THEN d3
       ELSE IF execute_nonempty(mnt, TRUE) # 0 THEN d5
       ELSE IF copy_rootfs_to_image(TRUE, <<in.rsync, TRUE>>) # 0 THEN d5
       ELSE d6

KDiskInputs == [mklabel : BOOLEAN, mkpart : Bools(3), mkfs : Bools(2),
                mount : Bools(2), dd : BOOLEAN]

RECURSIVE Created(_, _, _)
(* the partitions parted creates: each mkpart that succeeds gets the next  *)
(* free number                                                             *)
Created(parts, oks, i) ==
    IF i > Len(parts) THEN <<>>
    ELSE (IF oks[i] THEN <<parts[i]>> ELSE <<>>)
         \o Created(parts, oks, i + 1)

(* kernel.c create_system_image as the image file sees it: the results of  *)
(* parted, mkfs, mount and dd are not looked at, every command is run      *)
kernel_image_disk(in) ==
    LET t  == IF in.mklabel THEN Created(KernelParts, in.mkpart, 1) ELSE <<>>
        d1 == WithTable(t)
        d2 == Mkfs(d1, 2, "fat32", in.mkfs[1])
        d3 == Mkfs(d2, 3, "ext4", in.mkfs[2])
        d4 == MountPart(d3, 2, "/mnt/boot", in.mount[1])
        d5 == MountPart(d4, 3, "/mnt/root", in.mount[2])
    IN [d5 EXCEPT !.writes = IF in.dd
                             THEN {Write("idbloader.img", 64, "kernel")}
                             ELSE {}]

DiskFrame == UNCHANGED <<os, rootfsTree, procVars, imgVars, gTrace, cmdVars>>

(* create_boot_image run on a new image file *)
CallImageDisk ==
    /\ Enter
    /\ \E in \in ImageInputs : disk' = image_disk(in)
    /\ StageReturns("image_disk", 0)
    /\ DiskFrame

(* kernel.c create_system_image run on a new image file *)
CallKernelImageDisk ==
    /\ Enter
    /\ \E in \in KDiskInputs : disk' = kernel_image_disk(in)
    /\ StageReturns("kernel_image_disk", 0)
    /\ DiskFrame

(* flash-uboot.sh run on the device that holds the image *)
CallFlashScript ==
    /\ Enter
    /\ \E have \in BOOLEAN, parts \in BOOLEAN, oks \in Bools(2) :
         disk' = [disk EXCEPT !.writes =
                     @ \cup flash_script_writes(have, parts, oks)]
    /\ StageReturns("flash_uboot", 0)
    /\ DiskFrame

(* main after start_interactive_build: both sinks are closed when open and *)
(* the outcome is printed and returned as the exit code                    *)
main_returns(result) ==
    /\ bld' = close_sink(close_sink(bld, "log"), "err")
    /\ pc' = "exited"
    /\ alive' = FALSE
    /\ exitCode' = result
    /\ prev' = lastRet
    /\ lastRet' = Returned("start_interactive_build", result)
    /\ UNCHANGED <<osVars, interrupted, sigOs, sigPc, imgVars, gTrace, xv,
                   rv, preOs, config>>

(* start_interactive_build, cases 1, 2 and 3: the value returned by        *)
(* perform_quick_setup or perform_custom_build is dropped, building = 0    *)
(* ends the loop and the function returns ERROR_SUCCESS                    *)
InteractiveBuildEnds ==
    /\ Running("returned")
    /\ lastRet.fn \in {"perform_quick_setup", "perform_custom_build"}
    /\ main_returns(ERROR_SUCCESS)

(* start_interactive_build, case 0 of the main menu *)
InteractiveBuildLeft ==
    /\ Running("menu")
    /\ main_returns(ERROR_USER_CANCELLED)

(***************************************************************************)
(* src/src/image.c: the image name of create_boot_image                    *)
(***************************************************************************)

(* image_path is the text ".../orangepi-5-plus-ubuntu-<v>-$(date +%Y%m%d)  *)
(* .img": the shell of each command expands $(date ...) when the command   *)
(* runs, so the file a command names is the one of the day it runs on      *)
ImageFile(day) == [name |-> "orangepi-5-plus-ubuntu", date |-> day]

(* the places where a command of create_boot_image expands image_path, in  *)
(* program order (install_bootloader_to_image: the branch taken when       *)
(* u-boot-rockchip.bin exists)                                             *)
ImagePathUses ==
    <<"dd", "sgdisk_zap", "sgdisk_clear", "losetup_format", "losetup_mount",
      "dd_bootloader", "xz", "sha256sum">>

(* dd of=FILE creates FILE when it is missing *)
FileExists(f, evs) ==
    \E k \in 1..Len(evs) :
        evs[k].op \in {"dd", "dd_bootloader"} /\ evs[k].file = f

(* a missing file makes sgdisk --zap-all and losetup fail; both stand      *)
(* before a "&&", so the executor returns -1 and create_boot_image ends.   *)
(* sgdisk --clear is the last command of its line and runs through tee;    *)
(* the result of compress_final_image is not looked at                     *)
UseFails(op, f, evs) ==
    /\ op \in {"sgdisk_zap", "losetup_format", "losetup_mount"}
    /\ ~FileExists(f, evs)

CallCreateBootImage ==
    /\ Enter
    /\ pc' = "image_path"
    /\ UNCHANGED <<osVars, procVars, imgVars, gTrace, cmdVars, lastRet>>

(* the next command that names the image runs, today or on a later day *)
ImagePathUse ==
    /\ Running("image_path")
    /\ Len(ev) < Len(ImagePathUses)
    /\ \E day \in (IF ev = <<>> THEN 1 ELSE ev[Len(ev)].day)..MaxDay :
         LET op == ImagePathUses[Len(ev) + 1]
             f  == ImageFile(day)
         IN /\ ev' = Append(ev, [op |-> op, day |-> day, file |-> f])
            /\ IF UseFails(op, f, ev)
               THEN StageReturns("create_boot_image", -1)
               ELSE IF Len(ev) + 1 = Len(ImagePathUses)
               THEN StageReturns("create_boot_image", 0)
               ELSE UNCHANGED <<pc, lastRet>>
    /\ UNCHANGED <<osVars, procVars, caller, imgFailed, gTrace, cmdVars,
                   callVars>>

(***************************************************************************)
(* src/builder.c, src/src/image.c: the menu loops and standard input       *)
(***************************************************************************)

(* get_user_choice(prompt, min, max): -1 when fgets finds the input ended, *)
(* otherwise the number typed (a number out of range is asked for again)   *)
get_user_choice(eof, line) == IF eof THEN 0 - 1 ELSE line

(* a read: one more line is consumed unless the input has ended *)
ReadLine(t) == IF t.eof THEN t ELSE [t EXCEPT !.reads = @ + 1]

(* a read is possible: the input has ended or another line is typed *)
CanRead == bld.tty.eof \/ bld.tty.reads < MaxReads

(* a menu screen is printed *)
ShowMenu(t) == [t EXCEPT !.screens = (@ + 1) % 2]

MenuPcs == {"main_menu", "custom_loop", "image_menu"}

(* the input ends: every later fgets returns NULL *)
StdinEnds ==
    /\ alive
    /\ ~bld.tty.eof
    /\ bld' = [bld EXCEPT !.tty.eof = TRUE]
    /\ UNCHANGED <<osVars, alive, exitCode, interrupted, sigOs, sigPc, config,
                   imgVars, gTrace, cmdVars, callVars, pc, lastRet>>

CallStartInteractiveBuild ==
    /\ Enter
    /\ pc' = "main_menu"
    /\ UNCHANGED <<osVars, procVars, imgVars, gTrace, cmdVars, lastRet>>

(* one iteration of the loop of start_interactive_build: 1 ends the loop   *)
(* after quick setup, 2 and 3 enter perform_custom_build, 4, 5 and 6 show  *)
(* a page, 0 returns; for -1 no case matches and the loop goes round       *)
MainMenuChoice ==
    /\ Running("main_menu")
    /\ CanRead
    /\ \E line \in 0..6 :
         LET choice == get_user_choice(bld.tty.eof, line)
             t == ReadLine(ShowMenu(bld.tty))
         IN /\ bld' = [bld EXCEPT !.tty = t]
            /\ IF choice = 1
               THEN StageReturns("start_interactive_build", ERROR_SUCCESS)
               ELSE IF choice \in {2, 3}
               THEN /\ pc' = "custom_loop"
                    /\ lastRet' = lastRet
               ELSE IF choice = 0
               THEN StageReturns("start_interactive_build",
                                 ERROR_USER_CANCELLED)
               ELSE UNCHANGED <<pc, lastRet>>
    /\ StageFrame
    /\ UNCHANGED <<rv, config>>

(* one iteration of the loop of perform_custom_build: 1..6 change a        *)
(* setting, 7 starts the build when confirmed, 0 leaves; for -1 no case    *)
(* matches and the loop goes round                                         *)
CustomMenuChoice ==
    /\ Running("custom_loop")
    /\ CanRead
    /\ \E line \in 0..7, confirmed \in BOOLEAN :
         LET choice == get_user_choice(bld.tty.eof, line)
             t == ReadLine(ShowMenu(bld.tty))
         IN /\ bld' = [bld EXCEPT !.tty = t]
            /\ IF choice = 0 \/ (choice = 7 /\ confirmed)
               THEN StageReturns("perform_custom_build", ERROR_SUCCESS)
               ELSE UNCHANGED <<pc, lastRet>>
    /\ StageFrame
    /\ UNCHANGED <<rv, config>>

CallImageCreationMenu ==
    /\ Enter
    /\ pc' = "image_menu"
    /\ UNCHANGED <<osVars, procVars, imgVars, gTrace, cmdVars, lastRet>>

(* one iteration of the loop of image_creation_menu: "if (fgets(...) ==    *)
(* NULL) continue;", 4 returns, every other number stays in the menu       *)
ImageMenuChoice ==
    /\ Running("image_menu")
    /\ CanRead
    /\ \E line \in 1..4 :
         LET t == ReadLine(ShowMenu(bld.tty))
         IN /\ bld' = [bld EXCEPT !.tty = t]
            /\ IF ~bld.tty.eof /\ line = 4
               THEN StageReturns("image_creation_menu", 0)
               ELSE UNCHANGED <<pc, lastRet>>
    /\ StageFrame
    /\ UNCHANGED <<rv, config>>

(***************************************************************************)
(* src/builder.c: the emulation platform menu                              *)
(***************************************************************************)

(* show_emulation_menu: the platform printed next to each option *)
show_emulation_menu ==
    [k \in 1..5 |->
        CASE k = 1 -> EMU_LIBREELEC
          [] k = 2 -> EMU_EMULATIONSTATION
          [] k = 3 -> EMU_RETROPIE
          [] k = 4 -> EMU_LAKKA
          [] k = 5 -> EMU_ALL]

(* choice = get_user_choice("Select platform", 0, 5);                      *)
(* if (choice > 0) config->emu_platform = choice;                          *)
select_platform(e, choice) ==
    IF choice > 0
    THEN [e EXCEPT !.choice = choice, !.emu_platform = choice]
    ELSE [e EXCEPT !.choice = choice]

(* the switch of install_emulation_packages: the setups run for a platform *)
platform_setups(emu_platform) ==
    CASE emu_platform = EMU_LIBREELEC -> <<"setup_libreelec">>
      [] emu_platform = EMU_EMULATIONSTATION -> <<"setup_emulationstation">>
      [] emu_platform = EMU_RETROPIE -> <<"setup_retropie">>
      [] emu_platform = EMU_ALL ->
           <<"setup_libreelec", "setup_emulationstation", "setup_retropie">>
      [] OTHER -> <<>>

(* the emulation menu of start_interactive_build (case 3) and of           *)
(* perform_custom_build (case 1)                                           *)
CallSelectPlatform ==
    /\ Enter
    /\ \E choice \in 0..5 :
         bld' = [bld EXCEPT !.emu = select_platform(@, choice)]
    /\ StageReturns("show_emulation_menu", 0)
    /\ StageFrame
    /\ UNCHANGED <<rv, config>>

(* install_emulation_packages: the common packages (a failure is only      *)
(* logged), then the setups of the platform; a single platform's result is *)
(* returned, the results of EMU_ALL are not looked at                      *)
CallInstallEmulationPackages ==
    /\ Enter
    /\ \E ins \in RetryInputs(1, 2),
          res \in {ERROR_SUCCESS, ERROR_NETWORK_FAILURE} :
         LET r  == execute_command_with_retry(SimpleCommand, TRUE, 2, ins)
             b1 == LogWrapper(LogEntry(bld, LOG_LEVEL_INFO, "emulation"), r.v)
             b2 == IF r.ret # 0
                   THEN LogEntry(b1, LOG_LEVEL_WARNING, "packages")
                   ELSE b1
             run == platform_setups(bld.emu.emu_platform)
         IN /\ rv' = r.v
            /\ bld' = [b2 EXCEPT !.emu.setups = run]
            /\ StageReturns("install_emulation_packages",
                            IF Len(run) = 1 THEN res ELSE ERROR_SUCCESS)
    /\ StageFrame
    /\ UNCHANGED config

Init ==
    /\ os = OsInit
    /\ rootfsTree \in BOOLEAN
    /\ alive = TRUE
    /\ exitCode = 0
    /\ interrupted = 0
    /\ sigOs = OsInit
    /\ sigPc = "none"
    /\ pc = "menu"
    /\ caller = "menu"
    /\ imgFailed = FALSE
    /\ lastRet = Returned("none", 0)
    /\ ev = <<>>
    /\ gTrace = <<>>
    /\ rv = NoRv
    /\ xv = NoXv
    /\ prev = Returned("none", 0)
    /\ preOs = OsInit
    /\ config = MainConfig
    /\ bld = NoBld
    /\ disk = NoDisk

(* the stage functions are checked for either value of continue_on_error,  *)
(* and on a host where a build tree may exist                              *)
InitBuilder ==
    /\ os = OsInit
    /\ rootfsTree \in BOOLEAN
    /\ alive = TRUE
    /\ exitCode = 0
    /\ interrupted = 0
    /\ sigOs = OsInit
    /\ sigPc = "none"
    /\ pc = "menu"
    /\ caller = "menu"
    /\ imgFailed = FALSE
    /\ lastRet = Returned("none", 0)
    /\ ev = <<>>
    /\ gTrace = <<>>
    /\ rv = NoRv
    /\ xv = NoXv
    /\ prev = Returned("none", 0)
    /\ preOs = OsInit
    /\ config \in {[MainConfig EXCEPT !.continue_on_error = c] :
                       c \in BOOLEAN}
    /\ bld = NoBld
    /\ disk = NoDisk

Next ==
    \/ BackToMenu
    \/ MenuCreateImage
    \/ ImgAlloc
    \/ ImgPartition
    \/ ImgFormat
    \/ ImgMount
    \/ ImgCopy
    \/ ImgBootloader
    \/ ImgConfigure
    \/ ImgUnmount
    \/ ImgCompress
    \/ CallUnmount
    \/ MenuGaming
    \/ GamingDeps
    \/ GamingKernel
    \/ GamingUboot
    \/ GamingRootfs
    \/ GamingGpu
    \/ GamingExtras
    \/ GamingImageReturns
    \/ cleanup_on_signal

(* the image and pipeline entry points over the host *)
Spec == Init /\ [][Next]_vars

NextCmd ==
    \/ BackToMenu
    \/ CallRetry
    \/ RetryIteration
    \/ RetryExhausted
    \/ CallExecuteCommandSafe
    \/ CallExecuteCommand
    \/ cleanup_on_signal

(* the command executors and the retry wrapper, over every command text *)
SpecCmd == Init /\ [][NextCmd]_vars

NextKernel ==
    \/ BackToMenu
    \/ CallKernelCreateSystemImage
    \/ cleanup_on_signal

(* kernel.c create_system_image over the host *)
SpecKernel == Init /\ [][NextKernel]_vars

NextBuilder ==
    \/ BackToMenu
    \/ CallLogMessageDetailed
    \/ CallLogMessage
    \/ CallSetupBuildEnvironment
    \/ EnvDisk
    \/ EnvMkdir
    \/ EnvOpenLogs
    \/ EnvAptUpdate
    \/ CallInstallPrerequisites
    \/ MainCloseLog
    \/ MainCloseErrorLog
    \/ cleanup_on_signal

(* builder.c: the stage functions, the log sinks and main's shutdown *)
SpecBuilder == InitBuilder /\ [][NextBuilder]_vars

NextLayout ==
    \/ BackToMenu
    \/ CallImageDisk
    \/ CallKernelImageDisk
    \/ CallFlashScript
    \/ cleanup_on_signal

(* the image file under the three writers of partitions and bootloaders *)
SpecLayout == Init /\ [][NextLayout]_vars

NextConfig ==
    \/ BackToMenu
    \/ CallPerformQuickSetup
    \/ CallPerformCustomBuild
    \/ CustomUbuntu
    \/ CustomGpu
    \/ CustomComponent
    \/ CustomStart
    \/ CustomLeave
    \/ CallBuildUbuntuRootfs
    \/ InteractiveBuildEnds
    \/ InteractiveBuildLeft
    \/ cleanup_on_signal

(* the build configuration: the menus that set it, the stage given it *)
SpecConfig == Init /\ [][NextConfig]_vars

NextGpu ==
    \/ BackToMenu
    \/ CallInstallGpuFirmware
    \/ CallInstallGpuDriversLegacy
    \/ CallDownloadMaliBlobs
    \/ MaliDriver
    \/ cleanup_on_signal

(* the GPU driver download over every outcome of its commands *)
SpecGpu == Init /\ [][NextGpu]_vars

NextDate ==
    \/ BackToMenu
    \/ CallCreateBootImage
    \/ ImagePathUse
    \/ cleanup_on_signal

(* create_boot_image with the calendar date moving on between commands *)
SpecDate == Init /\ [][NextDate]_vars

NextSource ==
    \/ BackToMenu
    \/ CallDownloadKernelSource
    \/ SourceTry
    \/ cleanup_on_signal

(* the kernel source download over every outcome of its commands *)
SpecSource == Init /\ [][NextSource]_vars

NextEof ==
    \/ BackToMenu
    \/ StdinEnds
    \/ CallStartInteractiveBuild
    \/ MainMenuChoice
    \/ CustomMenuChoice
    \/ CallImageCreationMenu
    \/ ImageMenuChoice
    \/ cleanup_on_signal

(* the menu loops; a loop that can take its next iteration takes it *)
SpecEof ==
    /\ Init
    /\ [][NextEof]_vars
    /\ WF_vars(MainMenuChoice)
    /\ WF_vars(CustomMenuChoice)
    /\ WF_vars(ImageMenuChoice)

NextEmu ==
    \/ BackToMenu
    \/ CallSelectPlatform
    \/ CallInstallEmulationPackages
    \/ cleanup_on_signal

(* the emulation platform from the menu to the package installation *)
SpecEmu == Init /\ [][NextEmu]_vars

TypeOK ==
    /\ os.loops \subseteq Devs
    /\ os.lazy \subseteq os.loops
    /\ os.record \in Devs \cup {0}
    /\ \A i \in 1..Len(os.mounts) : os.mounts[i].dev \in os.loops
    /\ lastRet.val \in {0, -1, ERROR_UNKNOWN, ERROR_FILE_NOT_FOUND,
                      ERROR_NETWORK_FAILURE, ERROR_INSUFFICIENT_SPACE,
                      ERROR_DEPENDENCY_MISSING, ERROR_INSTALLATION_FAILED,
                      ERROR_USER_CANCELLED, ERROR_GPU_DRIVER_FAILED}
    /\ \A k \in Sinks : /\ bld.fp[k] \in {"null", "open", "closed"}
                        /\ bld.opens[k] \in 0..MaxOpens
    /\ config.continue_on_error \in BOOLEAN

(***************************************************************************)
(* Properties                                                              *)
(***************************************************************************)

(* create_boot_image has just returned to its caller *)
ImgReturned ==
    /\ alive
    /\ pc \in {"returned", "g_image_ret"}
    /\ lastRet.fn = "create_boot_image"

(* the loop devices the mount step of the current call has bound *)
MountBound ==
    {ev[i].dev : i \in {j \in 1..Len(ev) : ev[j].op = "losetup"}}

(* C1: whenever create_boot_image returns, every loop device its mount     *)
(* step bound to the image is detached again and no partition of it is     *)
(* mounted: a failure after the binding, inside the mount step or in a     *)
(* later step, runs the unmount/detach teardown before the return.         *)
C1_TeardownBeforeReturn ==
    ImgReturned =>
        \A d \in MountBound : d \notin os.loops /\ ~Busy(os, d)

(* exit statuses that tell a cancellation from an ordinary failure: the    *)
(* USER_CANCELLED code and the handler's signal + 128                      *)
CancellationCodes == {ERROR_USER_CANCELLED} \cup {sig + 128 : sig \in Signals}

(* C2: a signal that finds the image's partitions mounted on a bound loop  *)
(* device ends the process with the cancellation code and, after the exit, *)
(* with nothing mounted and none of those loop devices bound.              *)
C2_SignalTeardown ==
    (~alive /\ sigOs.mounts # <<>>) =>
        /\ os.mounts = <<>>
        /\ \A i \in 1..Len(sigOs.mounts) : sigOs.mounts[i].dev \notin os.loops
        /\ exitCode \in CancellationCodes

(* the required stages of gaming_optimized_build, in the order of the code *)
Stages == <<"check_dependencies", "build_kernel", "build_and_install_uboot",
            "build_rootfs", "install_gaming_gpu_drivers",
            "create_boot_image">>

(* the stage the pipeline is about to start or is running, 0 when none *)
StageAt ==
    IF ~alive \/ caller # "gaming" THEN 0
    ELSE CASE pc = "g_deps" -> 1
           [] pc = "g_kernel" -> 2
           [] pc = "g_uboot" -> 3
           [] pc = "g_rootfs" -> 4
           [] pc = "g_gpu" -> 5
           [] pc \in {"g_extras", "g_image_ret", "img_alloc", "img_part", "img_format", "img_mount",
                      "img_copy", "img_bootloader", "img_configure",
                      "img_unmount", "img_compress"} -> 6
           [] OTHER -> 0

AllOk(n) == \A i \in 1..n : gTrace[i].stage = Stages[i] /\ gTrace[i].ret = 0

(* C3: in gaming_optimized_build a required stage is started only when     *)
(* every earlier required stage has returned success; once a required      *)
(* stage has failed nothing later is started, image creation least of all, *)
(* and the pipeline has returned failure.                                  *)
C3_StagesGated ==
    /\ StageAt # 0 => Len(gTrace) = StageAt - 1 /\ AllOk(StageAt - 1)
    /\ \A i \in 1..Len(gTrace) :
          gTrace[i].ret # 0 =>
              /\ i = Len(gTrace)
              /\ pc = "returned"
              /\ lastRet = Returned("gaming_optimized_build", -1)
              /\ gTrace[i].stage # "create_boot_image" =>
                    ev = <<>>

(* C3 witness: the U-Boot stage has failed after two successful stages     *)
(* and the pipeline has returned                                           *)
C3_Witness ==
    /\ pc = "returned"
    /\ Len(gTrace) = 3
    /\ gTrace[3].ret # 0
    /\ AllOk(2)

(* execute_command_with_retry has just returned *)
RetryReturned ==
    /\ alive
    /\ pc = "returned"
    /\ lastRet.fn = "execute_command_with_retry"

(* the error context names the command that failed *)
CarriesCommand(msg) == msg = MSG_COMMAND

(* C4: with N >= 1 attempts allowed, no interruption and a command that    *)
(* fails each time it is run, execute_command_with_retry has called the    *)
(* executor exactly N times when it returns, returns failure, reports that *)
(* the retries are exhausted and its error context carries the command.    *)
C4_ExhaustsAfterN ==
    (/\ RetryReturned
     /\ rv.max >= 1
     /\ ~rv.sawInterrupt
     /\ \A i \in 1..Len(rv.fails) : rv.fails[i])
    => /\ Len(rv.results) = rv.max
       /\ lastRet.val = -1
       /\ rv.code # ERROR_SUCCESS
       /\ CarriesCommand(rv.msg)

(* what the wrapper returns for success and for a command that failed or   *)
(* whose retries are exhausted                                             *)
OrdinaryOutcomes == {0, -1}

(* C5: a signal that arrives while execute_command_with_retry is in its    *)
(* loop makes the wrapper return, with an outcome that is neither success  *)
(* nor the value of an ordinary failure or of exhausted retries.           *)
C5_CancelledOutcome ==
    sigPc = "retry_loop" =>
        /\ lastRet.fn = "execute_command_with_retry"
        /\ lastRet.val \notin OrdinaryOutcomes

(* C6: execute_command_with_retry returns success at the first attempt k   *)
(* the executor reports as successful: a zero result is the last executor  *)
(* call of the loop and ends it, k <= N executor calls were made, all      *)
(* before the k-th failed, and the "succeeded on attempt" note is written  *)
(* exactly when k > 1.                                                     *)
C6_FirstSuccessEnds ==
    /\ \A i \in 1..Len(rv.results) :
          rv.results[i] = 0 =>
              /\ i = Len(rv.results)
              /\ RetryReturned
              /\ lastRet.val = 0
    /\ (RetryReturned /\ lastRet.val = 0) =>
          LET k == Len(rv.results) IN
          /\ k >= 1
          /\ k <= rv.max
          /\ rv.attempt = k
          /\ rv.results[k] = 0
          /\ \A i \in 1..(k-1) : rv.results[i] = -1
          /\ (rv.notes = 1) <=> (k > 1)
          /\ rv.notes \in {0, 1}

(* C6 witness: the wrapper has returned success at its third attempt *)
C6_Witness ==
    /\ RetryReturned
    /\ lastRet.val = 0
    /\ Len(rv.results) = 3
    /\ rv.notes = 1

(* C7: an executor handed a command that is NULL, empty or all blanks      *)
(* returns failure without spawning a child, and execute_command_safe puts *)
(* the empty-command error into the error context.                         *)
C7_BlankRejected ==
    (/\ alive
     /\ pc = "returned"
     /\ xv.fn # "none"
     /\ IsBlank([null |-> xv.null, text |-> xv.cmd]))
    => /\ lastRet.val = -1
       /\ xv.spawned = 0
       /\ xv.fn = "execute_command_safe" => xv.msg = MSG_EMPTY

(* the steps of create_boot_image after the image file has been allocated *)
AfterAlloc == {"img_part", "img_format", "img_mount", "img_copy",
               "img_bootloader", "img_configure", "img_unmount",
               "img_compress"}

(* C8: create_boot_image called from the image menu while ROOTFS_PATH      *)
(* holds no populated tree fails before it allocates, partitions or        *)
(* formats the image, and binds no loop device during the call.            *)
C8_FailsFast ==
    (alive /\ caller = "menu" /\ ~rootfsTree) =>
        /\ pc \notin AfterAlloc
        /\ ImgReturned => lastRet.val = -1 /\ ev = <<>>

(* what an operation of a call acquires or releases; the loop device the   *)
(* format step binds and detaches for itself is not a resource of the      *)
(* mounted image                                                           *)
AcqKind(op) ==
    CASE op \in {"losetup", "k_losetup"} -> "loop"
      [] op \in {"mount_root", "k_mount_root"} -> "root"
      [] op \in {"mount_boot", "k_mount_boot"} -> "boot"
      [] OTHER -> "none"

RelKind(op) ==
    CASE op \in {"detach", "k_detach"} -> "loop"
      [] op \in {"umount_root", "k_umount_root"} -> "root"
      [] op \in {"umount_boot", "k_umount_boot"} -> "boot"
      [] OTHER -> "none"

(* place of a resource in the acquisition order loop, root, boot *)
Place(kind) ==
    CASE kind = "loop" -> 1 [] kind = "root" -> 2 [] kind = "boot" -> 3
      [] OTHER -> 0

(* C9: within a call the loop device is acquired before the root mount and *)
(* the root mount before the boot mount; releases are issued in the        *)
(* reverse order, boot unmount, root unmount, loop detach; and a detach is *)
(* issued only when no partition of the device is mounted any more.        *)
C9_ReverseRelease ==
    \A i \in 1..Len(ev) :
        /\ \A j \in (i+1)..Len(ev) :
              /\ (AcqKind(ev[i].op) # "none" /\ AcqKind(ev[j].op) # "none")
                    => Place(AcqKind(ev[i].op)) < Place(AcqKind(ev[j].op))
              /\ (RelKind(ev[i].op) # "none" /\ RelKind(ev[j].op) # "none")
                    => Place(RelKind(ev[i].op)) > Place(RelKind(ev[j].op))
        /\ RelKind(ev[i].op) = "loop" => ev[i].ok

(* unmount_orangepi_partitions, called on its own where nothing is mounted *)
(* and no record file exists, has just returned                            *)
ReleasedNothing ==
    /\ alive
    /\ pc = "returned"
    /\ lastRet.fn = "unmount_orangepi_partitions"
    /\ preOs.mounts = <<>>
    /\ preOs.record = 0

FormatReturned ==
    /\ alive
    /\ \/ pc = "img_mount"
       \/ ImgReturned /\ \A i \in 1..Len(ev) :
                           ev[i].op \in {"fmt_losetup", "fmt_detach"}

(* C11: when format_orangepi_partitions has returned, with success or with *)
(* failure, the loop device that call bound is no longer bound.            *)
C11_FormatDetaches ==
    FormatReturned =>
        \A i \in 1..Len(ev) :
            ev[i].op = "fmt_losetup" => ev[i].dev \notin os.loops

(* setup_build_environment has just returned *)
EnvReturned ==
    /\ alive
    /\ pc = "returned"
    /\ lastRet.fn = "setup_build_environment"

Logged(tag) == \E i \in 1..Len(bld.entries) : bld.entries[i].tag = tag

Ran(step) == \E i \in 1..Len(bld.steps) : bld.steps[i] = step

(* the disk-space check, resp. the package-list update, reported a failure *)
DiskCheckFailed == bld.space_result # ERROR_SUCCESS
AptUpdateFailed == Ran("apt") /\ bld.apt_result # 0

PipelineReturned ==
    /\ alive
    /\ pc = "returned"
    /\ bld.started

AllDisabled(cfg) ==
    /\ \A f \in ComponentFlags : ~cfg[f]
    /\ ~cfg.install_gpu_blobs

(* C13: a pipeline run given a configuration with every component flag    *)
(* disabled executes the environment-setup stage and no other stage, and   *)
(* its result is success.                                                  *)
C13_AllDisabledRun ==
    (PipelineReturned /\ AllDisabled(bld.pre)) =>
        /\ bld.steps = <<"setup_build_environment">>
        /\ config = bld.pre
        /\ lastRet.val = ERROR_SUCCESS

(* a stage of builder.c has returned after its retried command failed on   *)
(* every one of the max_retries attempts                                   *)
StageExhausted ==
    /\ alive
    /\ pc = "returned"
    /\ lastRet.fn \in {"setup_build_environment", "install_prerequisites"}
    /\ rv.max > 0
    /\ Len(rv.results) = rv.max
    /\ \A i \in 1..Len(rv.results) : rv.results[i] # 0

ErrorEntries(tags) ==
    {i \in 1..Len(bld.entries) :
        /\ bld.entries[i].level >= LOG_LEVEL_ERROR
        /\ bld.entries[i].tag \in tags}

(* C14: when the retried command of a stage has failed on all its          *)
(* attempts, the stage halts with a failure and exactly one error entry is *)
(* logged for the exhaustion: none per attempt and no second one by the    *)
(* stage.                                                                  *)
C14_OneExhaustionEntry ==
    StageExhausted =>
        /\ lastRet.val # ERROR_SUCCESS
        /\ Cardinality(ErrorEntries({"retries", "stage"})) = 1

(* a stage function that is given the build configuration has returned;    *)
(* bld.pre is the configuration it was called with                         *)
ConfigStageReturned ==
    /\ alive
    /\ pc = "returned"
    /\ lastRet.fn = "build_ubuntu_rootfs"

(* C16: a stage function leaves every field of the build configuration it  *)
(* is given as it was: after the root-filesystem bootstrap stage returns,   *)
(* whatever its commands did, the configuration equals the one before it.  *)
C16_ConfigUnchanged ==
    ConfigStageReturned => config = bld.pre

(* C20: on every execution, signals and repeated environment setup         *)
(* included, each log sink is opened at most once and closed at most once, *)
(* and a sink that was opened is closed when the process has ended.        *)
C20_SinksOpenedAndClosedOnce ==
    \A k \in Sinks :
        /\ bld.opens[k] <= 1
        /\ bld.closes[k] <= 1
        /\ (~alive /\ bld.opens[k] = 1) => bld.closes[k] = 1

(* C15: create_boot_image returns success only if every step of the        *)
(* assembly succeeded: on a run that returns 0 no step recorded a failure,  *)
(* the unmount, the compression and the checksum included.                 *)
C15_SuccessMeansAllSteps ==
    (ImgReturned /\ lastRet.val = 0) =>
        \A i \in 1..Len(ev) : ev[i].ok

Starts(layout) == {layout[i].first : i \in 1..Len(layout)}

Named(layout, names) == {i \in 1..Len(layout) : layout[i].name \in names}

(* the start sectors the layout table declares *)
DeclaredStarts ==
    /\ Len(OrangePiLayout) = 5
    /\ [i \in 1..5 |-> OrangePiLayout[i].name]
           = <<"loader1", "loader2", "trust", "boot", "rootfs">>
    /\ [i \in 1..5 |-> OrangePiLayout[i].first]
           = <<64, 8192, 16384, 24576, 32768>>

(* pairwise disjoint, gap-free ranges *)
GapFree(layout) ==
    /\ \A i \in 1..Len(layout) : layout[i].first <= layout[i].last
    /\ \A i \in 1..(Len(layout) - 1) :
           layout[i + 1].first = layout[i].last + 1

(* C17: every bootloader write is made at a start sector the partition     *)
(* layout table declares (64, 8192, 16384, 24576, 32768); the five         *)
(* partitions are disjoint and gap-free from sector 64; no write starts    *)
(* inside the boot or rootfs partition; the image installer and the flash  *)
(* helper script write the same binary at the same sector.                 *)
C17_SeekSectorsMatchLayout ==
    /\ DeclaredStarts
    /\ GapFree(OrangePiLayout)
    /\ \A w \in disk.writes :
           /\ w.seek \in Starts(OrangePiLayout)
           /\ \A i \in Named(OrangePiLayout, {"boot", "rootfs"}) :
                  ~(OrangePiLayout[i].first <= w.seek
                        /\ w.seek <= OrangePiLayout[i].last)
    /\ \A w1 \in disk.writes, w2 \in disk.writes :
           w1.bin = w2.bin => w1.seek = w2.seek

(* an image partitioned by sgdisk on which the installer and the flash     *)
(* script have both written idbloader.img and u-boot.itb                   *)
C17_Witness ==
    /\ alive
    /\ disk.table = OrangePiLayout
    /\ \A by \in {"image", "script"} :
           /\ Write("idbloader.img", 64, by) \in disk.writes
           /\ Write("u-boot.itb", 16384, by) \in disk.writes

BootNames == {"boot"}
RootNames == {"rootfs", "root"}

(* the mount points of the root and of the boot filesystem *)
RootMounts == {"M", "/mnt/root"}
BootMounts == {"M/boot", "/mnt/boot"}

(* C18: in every image-assembly implementation the partition formatted     *)
(* FAT32 is the one the partition table names boot, the partition          *)
(* formatted ext4 is the one it names rootfs, and the mount step mounts    *)
(* the rootfs partition as the root and the boot partition as its boot     *)
(* directory.                                                              *)
C18_IndicesAgree ==
    /\ \A i \in 1..Len(disk.table) :
           /\ disk.fs[i] = "fat32" => disk.table[i].name \in BootNames
           /\ disk.fs[i] = "ext4" => disk.table[i].name \in RootNames
    /\ \A m \in disk.mounts :
           /\ m.at \in RootMounts => disk.table[m.part].name \in RootNames
           /\ m.at \in BootMounts => disk.table[m.part].name \in BootNames

(* the order of the steps of create_boot_image that leave events *)
StepOf(op) ==
    CASE op \in {"fmt_losetup", "fmt_detach"} -> 3
      [] op \in {"losetup", "mount_root", "mount_boot"} -> 4
      [] op \in {"umount_boot", "umount_root", "detach"} -> 8
      [] op \in {"xz", "sha256sum", "compress"} -> 9

Compressing == \E i \in 1..Len(ev) : ev[i].op = "xz"

(* C19: a run of create_boot_image takes its steps in the fixed order;     *)
(* compression starts only after the unmount/detach step, with no          *)
(* partition of the image mounted and no loop device bound, and not on a   *)
(* run in which an earlier step failed; the checksum is computed only      *)
(* after the compression succeeded.                                        *)
C19_CompressAfterRelease ==
    ImgReturned =>
        /\ \A i \in 1..Len(ev), j \in 1..Len(ev) :
               i < j => StepOf(ev[i].op) <= StepOf(ev[j].op)
        /\ Compressing =>
               /\ \E i \in 1..Len(ev) : ev[i].op = "umount_root"
               /\ os.mounts = <<>>
               /\ os.loops = {}
               /\ \A i \in 1..Len(ev) : StepOf(ev[i].op) < 9 => ev[i].ok
        /\ \A j \in 1..Len(ev) :
               ev[j].op = "sha256sum" =>
                   \E i \in 1..(j - 1) : ev[i].op = "xz" /\ ev[i].ok

(* a logging call of either logger has returned *)
LogCallReturned ==
    /\ pc = "returned"
    /\ lastRet.fn \in {"log_message_detailed", "log_message"}

(* C21: a logging call is suppressed exactly when its level is below the   *)
(* configured threshold; an accepted call writes one console line and one  *)
(* main-log line, and one error-log line exactly when its level is Error   *)
(* or Critical.                                                            *)
C21_LoggingContract ==
    LogCallReturned =>
        /\ (bld.entries = <<>>) <=> (bld.logcall < ConfigLogLevel)
        /\ bld.entries # <<>> =>
             /\ Len(bld.entries) = 1
             /\ bld.entries[1].console
             /\ bld.entries[1].log
             /\ bld.entries[1].err <=> (bld.logcall >= LOG_LEVEL_ERROR)

(* an executor invocation has returned *)
ExecutorReturned ==
    /\ pc = "returned"
    /\ lastRet.fn \in {"execute_command_safe", "execute_command"}

(* C22: every executor invocation appends an entry to the persistent main  *)
(* log, and every failed invocation (non-zero status or rejected empty     *)
(* command) also appends an entry to the persistent error log, with or     *)
(* without an error context.                                               *)
C22_ExecutorLogs ==
    ExecutorReturned =>
        /\ \E i \in 1..Len(bld.entries) : bld.entries[i].log
        /\ lastRet.val # 0 =>
             \E i \in 1..Len(bld.entries) : bld.entries[i].err

(* download_mali_blobs has returned from its loop *)
MaliReturned ==
    /\ pc = "returned"
    /\ lastRet.fn = "download_mali_blobs"
    /\ bld.mali.i > 0

InSeq(x, q) == \E k \in 1..Len(q) : q[k] = x

C23_OptionalFailed ==
    /\ MaliReturned
    /\ bld.mali.failed = <<3>>
    /\ lastRet.val = ERROR_SUCCESS

(* main has returned the result of start_interactive_build *)
MainReturned ==
    /\ ~alive
    /\ pc = "exited"
    /\ lastRet.fn = "start_interactive_build"

(* the user declined a confirmation of quick setup, left the custom menu   *)
(* without starting a build, or left the main menu                         *)
UserCancelled ==
    \/ prev.fn = "perform_quick_setup" /\ prev.val = ERROR_USER_CANCELLED
    \/ prev.fn = "perform_custom_build" /\ ~bld.started
    \/ lastRet.val = ERROR_USER_CANCELLED

(* C24: the process exits with code 0 only if a build was started and      *)
(* ended with success; when the user declined a confirmation or left a     *)
(* menu, the exit code is the user-cancelled code.                         *)
C24_SuccessOnlyAfterBuild ==
    MainReturned =>
        /\ exitCode = ERROR_SUCCESS => bld.started
        /\ UserCancelled => exitCode = ERROR_USER_CANCELLED

(* C25: for every command the executor's outcome is success exactly when   *)
(* the command itself ended with exit status zero, so the outcome with the *)
(* echo-to-console flag set equals the outcome with it clear.              *)
C25_OutcomeIndependentOfEcho ==
    (ExecutorReturned /\ ~xv.null /\ strlen(xv.cmd) > 0) =>
        \A oks \in Bools(NumSimple(xv.cmd)) :
            LET c == [null |-> FALSE, text |-> xv.cmd]
                ctx == [code |-> 0, msg |-> MSG_NONE]
                safe(show) == execute_command_safe(c, oks, show, ctx, TRUE).ret
                plain(show) == execute_command(c, oks, show, TRUE).ret
            IN /\ safe(TRUE) = safe(FALSE)
               /\ plain(TRUE) = plain(FALSE)
               /\ (safe(xv.show) = 0) <=> ~CommandFails(xv.cmd, oks)
               /\ (plain(xv.show) = 0) <=> ~CommandFails(xv.cmd, oks)

(* C26: all steps of one create_boot_image run operate on the same image   *)
(* file, also when the calendar date changes between two steps.            *)
C26_OneImageFile ==
    (pc \in {"image_path", "returned"} /\ ev # <<>>) =>
        \A i, j \in 1..Len(ev) : ev[i].file = ev[j].file

(* a function of the GPU driver installation that calls mkdtemp returned *)
GpuInstallReturned ==
    /\ pc = "returned"
    /\ lastRet.fn \in {"install_gpu_firmware", "install_gpu_drivers_legacy"}

(* C27: every temporary directory made with mkdtemp during the GPU driver  *)
(* installation is removed before the function that made it returns, on    *)
(* success and on every failure return.                                    *)
C27_TempDirsRemoved ==
    GpuInstallReturned => bld.tmp.left = {}

(* download_kernel_source is trying its sources or has returned from them *)
SourceEntered == bld.src.i > 0
SourceReturned ==
    /\ pc = "returned"
    /\ lastRet.fn = "download_kernel_source"
    /\ SourceEntered

(* the sources are tried in the fixed order, a later one only after the    *)
(* earlier one failed all its retries, none after the first success        *)
SourceOrder ==
    /\ \A k \in 1..Len(bld.src.tried) : bld.src.tried[k] = k
    /\ \A k \in 1..Len(bld.src.failed) : bld.src.failed[k] = k
    /\ Len(bld.src.tried) - 1 <= Len(bld.src.failed)
    /\ Len(bld.src.failed) <= Len(bld.src.tried)

(* between the clone of a failed source and the next clone the removal of  *)
(* linux_temp has run                                                      *)
RemovalRun ==
    \A k \in 2..Len(bld.src.events) :
        bld.src.events[k].op = "clone" => bld.src.events[k-1].op = "rm"

(* linux_temp does not exist when a later source is cloned *)
RemovedBeforeNext ==
    \A k \in 1..Len(bld.src.events) :
        (bld.src.events[k].op = "clone" /\ bld.src.events[k].src > 1) =>
            bld.src.events[k].clean

SomeSourceSucceeded == Len(bld.src.failed) < Len(bld.src.tried)
AllSourcesFailed == Len(bld.src.failed) = Len(KernelSources)

(* C28: download_kernel_source tries Orange Pi, Rockchip, mainline in that *)
(* order, a later source only after the earlier one failed all retries; it *)
(* stops at the first success and returns success; linux_temp is removed   *)
(* after each failed source before the next attempt; the result is         *)
(* NetworkFailure exactly when all three sources failed.                   *)
C28_SourceFallback ==
    /\ SourceEntered => SourceOrder /\ RemovedBeforeNext
    /\ SourceReturned =>
         /\ SomeSourceSucceeded => lastRet.val = ERROR_SUCCESS
         /\ (lastRet.val = ERROR_NETWORK_FAILURE) <=> AllSourcesFailed

(* C28 as the code has it: the removal of linux_temp is run after each     *)
(* failed source (its result is not looked at, so the directory is gone    *)
(* only when rm succeeded), and the first success gives success except     *)
(* that the mainline path returns FileNotFound when it cannot change into  *)
(* the source directory.                                                   *)
C28_SourceFallbackAmended ==
    /\ SourceEntered => SourceOrder /\ RemovalRun
    /\ SourceReturned =>
         /\ SomeSourceSucceeded =>
              \/ lastRet.val = ERROR_SUCCESS
              \/ /\ lastRet.val = ERROR_FILE_NOT_FOUND
                 /\ Len(bld.src.tried) = Len(KernelSources)
         /\ (SomeSourceSucceeded /\ Len(bld.src.tried) < Len(KernelSources))
              => lastRet.val = ERROR_SUCCESS
         /\ (lastRet.val = ERROR_NETWORK_FAILURE) <=> AllSourcesFailed

(* the Orange Pi source failed both attempts, the Rockchip source was      *)
(* cloned, and mainline was never tried                                    *)
C28_Witness ==
    /\ SourceReturned
    /\ bld.src.failed = <<1>>
    /\ bld.src.tried = <<1, 2>>
    /\ lastRet.val = ERROR_SUCCESS

(* all three sources failed *)
C28_AllFailedReached ==
    /\ SourceReturned
    /\ AllSourcesFailed
    /\ lastRet.val = ERROR_NETWORK_FAILURE

(* C29: once standard input has reached end-of-file, a menu loop that is   *)
(* running (start_interactive_build, perform_custom_build,                 *)
(* image_creation_menu) eventually returns.                                *)
C29_MenusReturnOnEof ==
    (bld.tty.eof /\ pc \in MenuPcs) ~> (~alive \/ pc \notin MenuPcs)

(* C30: for every option k in 1..5 of the emulation platform menu,         *)
(* selecting k sets emu_platform to the platform the menu shows for k, so  *)
(* that after "All Platforms" install_emulation_packages runs the setups   *)
(* of LibreELEC, EmulationStation and RetroPie.                            *)
C30_MenuMatchesPlatform ==
    /\ bld.emu.choice \in 1..5 =>
         bld.emu.emu_platform = show_emulation_menu[bld.emu.choice]
    /\ (/\ pc = "returned"
        /\ lastRet.fn = "install_emulation_packages"
        /\ bld.emu.choice = 5) =>
         bld.emu.setups = <<"setup_libreelec", "setup_emulationstation",
                            "setup_retropie">>
====
